---- MODULE Spec2Model ----
(***************************************************************************)
(* Model of the cacher package of cyberinferno/go-utils: the Redis-backed  *)
(* redisCacher (distributed lock, lock extension, polling wait) and the    *)
(* in-memory MemoryCacher (go-cache plus singleflight).                    *)
(*                                                                         *)
(* Every store command (GET, SET, SETNX, EXISTS, EVAL) and every go-cache  *)
(* or singleflight call is one atomic step; the local code that follows a  *)
(* command up to the next command belongs to the same step.                *)
(***************************************************************************)
EXTENDS Integers, Sequences, FiniteSets, TLC

VARIABLES
    backend,     \* "redis": redisCacher, "memory": MemoryCacher
    store,       \* the Redis database / the go-cache item map, by store key
    group,       \* singleflight.Group.m: key -> leader of the in-flight call (0: none)
    pc,          \* position of each GetOrFetch call
    ckey,        \* the key argument of each call
    tok,         \* lockValue of each call
    res,         \* (pending or returned) result of each call
    cancelled,   \* whether the caller's ctx is done
    att,         \* singleflight: the leader whose call this caller waits on
    fetchCount,  \* number of fetchFn invocations so far, per key
    inv,         \* which invocation of fetchFn this call made (0: none)
    fok,         \* outcome of this call's fetchFn: "none", "ok", "err"
    timed,       \* whether the run lasts long enough for records to expire
    hist,        \* history record (observations only, never read by the code)
    wait,        \* the clock and the loop variables of one waitForCache call
    op,          \* the call of Delete, Clear, ItemCount or DeleteByPrefix in progress
    gen,         \* the IdGenerators and the values their Id calls returned
    sets,        \* the SafeSets, their locks and the goroutines that call them
    srv,         \* the TCPServer, its accept loops, sessions and callers
    cli,         \* the EventDrivenTCPClient, its goroutines and connections
    dfw          \* the DailyFileWriter, its files, callers and rotation goroutine

vars == <<backend, store, group, pc, ckey, tok, res, cancelled, att,
          fetchCount, inv, fok, timed, hist, wait, op, gen, sets,
          srv, cli, dfw>>

\* the state of the cacher package
Cacher == <<backend, store, group, pc, ckey, tok, res, cancelled, att,
            fetchCount, inv, fok, timed, hist, wait, op>>

\* the state of the other packages, which no cacher method touches
Others == <<gen, sets, srv, cli, dfw>>

-----------------------------------------------------------------------------
(* Bounds *)
NumCallers == 3
NumTimedCallers == 2
MaxTTLSteps == 1
MaxFetchTicks == 4

\* longest time a store command takes, in milliseconds
MaxLatency == 4

(* Program constants: the lock TTL in seconds, the wait loop's in ms *)
LockTTL == 30
WaitDeadline == 30000
InitialBackoff == 10
MaxBackoff == 500

Procs == 1..NumCallers

\* the calls made in a run: runs in which records expire are explored with
\* NumTimedCallers calls, the others with NumCallers
Active == IF timed \/ op.on THEN 1..NumTimedCallers ELSE Procs
Keys == {<<"a">>}

\* the keys used in the runs with Delete, Clear, ItemCount and
\* DeleteByPrefix calls: "a", "a:lock" and "b"
OpKeys == {<<"a">>, <<"a", "lock">>, <<"b">>}

AllKeys == Keys \cup OpKeys

\* the keys GetOrFetch is called with in this run
CallKeys == IF op.on THEN OpKeys ELSE Keys

\* lockKey := fmt.Sprintf("%s:lock", key)
LockKey(key) == Append(key, "lock")

StoreKeys == AllKeys \cup {LockKey(k) : k \in AllKeys}

\* ticker := time.NewTicker(ttl / 3)
ExtendInterval == LockTTL \div 3

\* ttl arguments of GetOrFetch that are tried
TTLs == {ExtendInterval * i : i \in 1..MaxTTLSteps}

\* A store record: the stored bytes, the remaining life time and (history
\* only) the call that wrote it.
Nil == [val |-> <<"nil", 0>>, exp |-> 0, by |-> 0]
Rec(v, e, p) == [val |-> v, exp |-> e, by |-> p]

\* json.Marshal(result): the JSON text of a value of type T
Marshal(v) == <<"json", v>>

\* lockValue := fmt.Sprintf("%d", time.Now().UnixNano()): the clock gives
\* every acquisition attempt its own reading, named here by the call
LockValue(p) == p

\* the decimal digit string of a lock value
TokenText(t) == <<"digits", t>>

\* json.Unmarshal([]byte(val), &result) for T = string or a struct: a
\* bare digit string is not the JSON text of a T
Unmarshal(b) ==
    IF b[1] = "json" THEN [ok |-> TRUE, v |-> b[2]]
    ELSE [ok |-> FALSE, v |-> 0]

NoRes == [kind |-> "none", val |-> 0]
Value(v) == [kind |-> "value", val |-> v]
\* an error result; val tells errors of one kind apart: for "store" the
\* failed command (1 GET, 2 SETNX, 3 SET, 4 EXISTS), for "fetcherr" the
\* invocation of fetchFn that returned it
Err(k, v) == [kind |-> k, val |-> v]

ErrKinds == {"store", "unmarshal", "marshal", "fetcherr", "timeout",
             "ctx", "fetchfailed"}

\* waitForCache entered at time 0: backoff := 10 * time.Millisecond;
\* deadline := time.Now().Add(timeout); history: ctxAt, the time at which
\* the caller's ctx ended; slept, the number of time.Sleep calls made
WaitStart == [pc |-> "check", now |-> 0, deadline |-> WaitDeadline,
              backoff |-> InitialBackoff, res |-> NoRes, ctxDone |-> FALSE,
              ctxAt |-> 0, slept |-> 0]

\* no call of Delete, Clear, ItemCount or DeleteByPrefix is made in the run
OpOff == [on |-> FALSE, pc |-> "idle", kind |-> "none", arg |-> <<>>,
          ctxDone |-> FALSE, snap |-> {}, n |-> 0, res |-> NoRes,
          left |-> 0, pre |-> [k \in StoreKeys |-> Nil], removed |-> 0,
          flying |-> {}]

-----------------------------------------------------------------------------
(* uint32 values are pairs <<high half, low half>> of 16-bit words *)
Word == 65536

\* the uint32 value of a small number
U32(n) == <<(n \div Word) % Word, n % Word>>

MaxUint32 == <<Word - 1, Word - 1>>

\* the generators of a run
NumGenerators == 2
Gens == 1..NumGenerators

\* the goroutines that call Id and the calls each of them makes
NumIdCallers == 2
MaxIdCalls == 2
IdCallers == 1..NumIdCallers

\* NewIdGenerator(startValue): start and the counter hold startValue
NewIdGenerator(startValue) == [start |-> startValue, id |-> startValue]

\* the generators made with the start values s; no Id call made yet.
\* reg: the result of the atomic addition of a call that has not returned
\* yet (<<>>: none). History: the values returned, per generator in the
\* order of the additions (out) and per goroutine with the generator (got)
Generators(s) ==
    [obj |-> [g \in Gens |-> NewIdGenerator(s[g])],
     reg |-> [p \in IdCallers |-> <<>>],
     out |-> [g \in Gens |-> <<>>],
     got |-> [p \in IdCallers |-> <<>>]]

\* the generators while the other packages run: started at 0, never called
GenIdle == gen = Generators([g \in Gens |-> U32(0)])

(* SafeSet *)
NumSets == 2
NumElems == 2
NumSetCallers == 2
MaxSetCalls == 1
Sets == 1..NumSets
Elems == 1..NumElems
SetCallers == 1..NumSetCallers

\* a goroutine that is in no SafeSet method and can still make left calls
NoCall(left) ==
    [pc |-> "idle", kind |-> "none", s |-> 1, other |-> 1, v |-> 1,
     base |-> {}, seen |-> {}, frozen |-> FALSE, result |-> {},
     ret |-> <<>>, left |-> left]

\* the sets with the elements m; every sync.RWMutex free: wmu is the writer
\* that has called Lock and holds the mutex of the writers (0: none), held
\* whether it has the lock, rd the RLocks each goroutine holds
SafeSets(m, left) ==
    [m |-> m,
     wmu |-> [x \in Sets |-> 0],
     held |-> [x \in Sets |-> FALSE],
     rd |-> [x \in Sets |-> [p \in SetCallers |-> 0]],
     g |-> [p \in SetCallers |-> NoCall(left)],
     fatal |-> FALSE]

\* the sets while the other packages run: NewSafeSet, never called
SetsIdle == sets = SafeSets([x \in Sets |-> {}], 0)

(* TCPServer *)
NumSrvCallers == 2
MaxSrvCalls == 2
MaxConns == 2
SrvCallers == 1..NumSrvCallers
Conns == 1..MaxConns

\* a goroutine that is in neither Start nor Stop and can make left calls
NoSrvCall(left) == [pc |-> "idle", kind |-> "none", ln |-> 0, left |-> left]

\* a TCPServer value before Start: Running false, Listener nil (0), no
\* session stored, no accept loop. eph: Addr names port 0, so that every
\* Listen binds a port of its own; open: the listeners that are bound;
\* lns: the listeners made so far; conns: the connections accepted so far.
\* History: stopped: a Stop has returned and no Start has succeeded since;
\* noStop: no Stop call was made; rets: how many Start calls returned nil,
\* the 'already running' error and the 'failed to start' error
NewServer(eph, left) ==
    [eph |-> eph, running |-> FALSE, listener |-> 0, open |-> {}, lns |-> 0,
     loops |-> <<>>, conns |-> 0,
     sess |-> [c \in Conns |-> [in |-> FALSE, closed |-> FALSE,
                                handled |-> FALSE, late |-> FALSE]],
     c |-> [p \in SrvCallers |-> NoSrvCall(left)],
     stopped |-> FALSE, noStop |-> TRUE,
     rets |-> [nil |-> 0, running |-> 0, failed |-> 0]]

\* the server while the other packages run: never started
SrvIdle == srv = NewServer(FALSE, 0)

(* EventDrivenTCPClient *)
NumCliCallers == 2
MaxCliCalls == 2
MaxDials == 2

\* the goroutines of a run: the callers of the exported methods, and a
\* readLoop and a reconnectHandler for every connection made
CliCallers == 1..NumCliCallers
Threads == 1..(NumCliCallers + 2 * MaxDials)

\* a goroutine that does not run. History, for the call of a caller:
\* late: it began after Close had returned; was: the state when it began
NoThread ==
    [role |-> "free", pc |-> "idle", kind |-> "none", conn |-> 0,
     target |-> "none", next |-> "none", err |-> FALSE, left |-> 0,
     ret |-> "none", late |-> FALSE, was |-> "none"]

\* NewEventDrivenTCPClient(config): state Disconnected, no connection, the
\* channels open and empty (rchan: the items in reconnectChan, stop:
\* stopChan is closed), the WaitGroup at 0, mu free (mu: the goroutine that
\* holds the write lock). auto: config.AutoReconnect. open: the connections
\* not yet closed by the client, lost: those the network has broken, dials:
\* the connections made. History: closeDone: the Close call that closed the
\* client has returned; onlyConnect: no call but Connect was made and no
\* connection was lost
NewEventDrivenTCPClient(auto, left) ==
    [auto |-> auto, conn |-> 0, state |-> "Disconnected", closed |-> FALSE,
     reconnecting |-> FALSE, stop |-> FALSE, rchan |-> 0, wg |-> 0, mu |-> 0,
     open |-> {}, lost |-> {}, dials |-> 0,
     t |-> [t \in Threads |->
              IF t \in CliCallers
              THEN [NoThread EXCEPT !.role = "caller", !.left = left]
              ELSE NoThread],
     closeDone |-> FALSE, onlyConnect |-> TRUE]

\* the client while the other packages run: made and never used
CliIdle == cli = NewEventDrivenTCPClient(FALSE, 0)

\* the state of the other packages while the cacher runs
(* DailyFileWriter *)
NumDfwCallers == 2
MaxDfwCalls == 2
MaxOpens == 3
MaxDays == 2
DfwCallers == 1..NumDfwCallers

\* a goroutine that is in no method of the writer and can make left calls;
\* cur is currentFile of Write, late whether the call began after the
\* Close that closed the writer had returned
NoDfwCall(left) ==
    [pc |-> "idle", kind |-> "none", ret |-> "none", cur |-> 0,
     late |-> FALSE, left |-> left]

\* NewDailyFileWriter returned the writer: the first rotate() has opened
\* file 1 for the current date and autoRotate runs. Files are numbered in
\* the order they are opened, 0 is nil; open holds the files not closed;
\* recent is time.Now().Sub(w.lastRotate) < time.Minute; rot is the
\* position of autoRotate; history: closeDone, the Close that closed the
\* writer has returned; anyClose, some Close call has returned; bad, a
\* Write has written to a file that was closed
NewDailyFileWriter(left) ==
    [closed |-> 0, file |-> 1, open |-> {1}, opens |-> 1,
     currDate |-> 1, day |-> 1, recent |-> TRUE,
     ctxDone |-> FALSE, wg |-> 1, rot |-> "select",
     t |-> [p \in DfwCallers |-> NoDfwCall(left)],
     closeDone |-> FALSE, anyClose |-> FALSE, bad |-> FALSE]

\* the writer while the other packages run: no call is made, no tick fires
DfwIdle == dfw = NewDailyFileWriter(0)

OthersIdle == GenIdle /\ SetsIdle /\ SrvIdle /\ CliIdle /\ DfwIdle

\* an empty store and no call made yet
ColdStart ==
    /\ backend \in {"redis", "memory"}
    /\ timed \in BOOLEAN
    /\ store = [k \in StoreKeys |-> Nil]
    /\ group = [k \in AllKeys |-> 0]
    /\ pc = [p \in Procs |-> "start"]
    /\ ckey = [p \in Procs |-> CHOOSE k \in Keys : TRUE]
    /\ tok = [p \in Procs |-> 0]
    /\ res = [p \in Procs |-> NoRes]
    /\ cancelled = [p \in Procs |-> FALSE]
    /\ att = [p \in Procs |-> 0]
    /\ fetchCount = [k \in AllKeys |-> 0]
    /\ inv = [p \in Procs |-> 0]
    /\ fok = [p \in Procs |-> "none"]
    /\ \E track \in BOOLEAN :
         hist = [conc |-> TRUE, lockExpired |-> FALSE, retry |-> 0,
                 lostTo |-> [p \in Procs |-> 0],
                 wrote |-> [p \in Procs |-> FALSE],
                 relRan |-> [p \in Procs |-> "no"],
                 ext |-> [p \in Procs |-> "none"],
                 track |-> track,
                 due |-> [p \in Procs |-> FALSE],
                 missed |-> [p \in Procs |-> FALSE],
                 ticks |-> [p \in Procs |-> 0],
                 wttl |-> [k \in AllKeys |-> 0],
                 age |-> [k \in AllKeys |-> 0]]
    /\ wait = WaitStart

Init == ColdStart /\ ~hist.track /\ op = OpOff /\ OthersIdle

\* return r from GetOrFetch
Return(p, r) ==
    /\ pc' = [pc EXCEPT ![p] = "done"]
    /\ res' = [res EXCEPT ![p] = r]

Goto(p, l) == pc' = [pc EXCEPT ![p] = l]

\* a store command issued with the caller's ctx fails when the ctx is done
\* (the connection pool checks ctx first) or when the store is unreachable;
\* fail also stands for a ctx that was done before the call's first commands
CmdFails(p, fail) == fail \/ cancelled[p]

\* no other call is in progress
Quiet(p) == \A q \in Procs \ {p} : pc[q] \in {"start", "done"}

\* history: the call has written the entry of its key or not; wttl: the ttl
\* the entry of the key was last written with; age: the time passed since
\* then, in extension intervals, counted up to the longest ttl
NoteWrite(p) ==
    IF store' = store THEN [hist EXCEPT !.wrote[p] = FALSE]
    ELSE [hist EXCEPT !.wrote[p] = TRUE,
                      !.wttl[ckey[p]] = store'[ckey[p]].exp,
                      !.age[ckey[p]] = 0]

\* history: a call starts. conc: no call so far started after another call
\* had returned; retry: the call that started with no other call in
\* progress, after a call whose fetchFn failed, on a key without entry
NoteStart(p, k) ==
    [hist EXCEPT !.conc = @ /\ \A q \in Procs : pc[q] # "done",
                 !.retry = IF /\ Quiet(p)
                              /\ \E q \in Procs : pc[q] = "done" /\ fok[q] = "err"
                              /\ store[k] = Nil
                           THEN p ELSE 0]

-----------------------------------------------------------------------------
(* redisCacher.GetOrFetch *)

\* mutant: the early return on a hit is missing
GetFirstNoHit(p) ==
    /\ backend = "redis"
    /\ p \in Active
    /\ pc[p] = "start"
    /\ \E k \in CallKeys :
         /\ ckey' = [ckey EXCEPT ![p] = k]
         /\ hist' = NoteStart(p, k)
    /\ Goto(p, "setnx")
    /\ UNCHANGED <<Others, backend, store, group, tok, res, cancelled, att,
                   fetchCount, inv, fok, timed, wait, op>>

\* val, err := c.client.Get(ctx, key).Result() and the hit path
GetFirst(p) ==
    /\ backend = "redis"
    /\ p \in Active
    /\ pc[p] = "start"
    /\ \E k \in CallKeys, fail \in BOOLEAN :
         /\ ckey' = [ckey EXCEPT ![p] = k]
         /\ hist' = NoteStart(p, k)
         /\ IF CmdFails(p, fail) THEN Return(p, Err("store", 1))
            ELSE IF store[k] # Nil
            THEN IF Unmarshal(store[k].val).ok
                 THEN Return(p, Value(Unmarshal(store[k].val).v))
                 ELSE Return(p, Err("unmarshal", 0))
            ELSE Goto(p, "setnx") /\ res' = res
    /\ UNCHANGED <<Others, backend, store, group, tok, cancelled, att, fetchCount,
                   inv, fok, timed, wait, op>>

\* acquired, err := c.client.SetNX(ctx, lockKey, lockValue, lockTTL).Result();
\* the winner registers the deferred release, starts extendLock and calls
\* fetchFn(ctx); the loser enters waitForCache
SetNX(p) ==
    /\ backend = "redis"
    /\ pc[p] = "setnx"
    /\ \E fail \in BOOLEAN :
         LET lk == LockKey(ckey[p])
             t == LockValue(p)
             id == fetchCount[ckey[p]] + 1 IN
         IF CmdFails(p, fail)
         THEN /\ Return(p, Err("store", 2))
              /\ UNCHANGED <<store, tok, hist, fetchCount, inv>>
         ELSE IF store[lk] = Nil
         THEN /\ store' = [store EXCEPT ![lk] = Rec(TokenText(t), LockTTL, p)]
              /\ tok' = [tok EXCEPT ![p] = t]
              /\ fetchCount' = [fetchCount EXCEPT ![ckey[p]] = id]
              /\ inv' = [inv EXCEPT ![p] = id]
              /\ Goto(p, "fetch") /\ res' = res
              /\ hist' = hist
         ELSE /\ Goto(p, "waitget") /\ res' = res
              /\ hist' = [hist EXCEPT !.lostTo[p] = store[lk].by]
              /\ UNCHANGED <<store, tok, fetchCount, inv>>
    /\ UNCHANGED <<Others, backend, group, ckey, cancelled, att, fok, timed, wait, op>>

\* mutant: the lock is released before the value is written
FetchReleasesFirst(p) ==
    /\ backend = "redis"
    /\ pc[p] = "fetch"
    /\ \E ok \in BOOLEAN :
         IF ~ok
         THEN /\ fok' = [fok EXCEPT ![p] = "err"]
              /\ res' = [res EXCEPT ![p] = Err("fetcherr", inv[p])]
         ELSE /\ fok' = [fok EXCEPT ![p] = "ok"]
              /\ res' = [res EXCEPT ![p] = Value(inv[p])]
    /\ Goto(p, "release")
    /\ UNCHANGED <<Others, backend, store, group, ckey, tok, cancelled, att,
                   fetchCount, inv, timed, wait, op, hist>>

\* fetchFn(ctx) returns; data, err := json.Marshal(result)
Fetch(p) ==
    /\ backend = "redis"
    /\ pc[p] = "fetch"
    /\ \E ok \in BOOLEAN, mok \in BOOLEAN :
         IF ~ok
         THEN /\ fok' = [fok EXCEPT ![p] = "err"]
              /\ res' = [res EXCEPT ![p] = Err("fetcherr", inv[p])]
              /\ Goto(p, "release")
         ELSE IF ~mok
         THEN /\ fok' = [fok EXCEPT ![p] = "ok"]
              /\ res' = [res EXCEPT ![p] = Err("marshal", 0)]
              /\ Goto(p, "release")
         ELSE /\ fok' = [fok EXCEPT ![p] = "ok"]
              /\ res' = [res EXCEPT ![p] = Value(inv[p])]
              /\ Goto(p, "set")
    /\ UNCHANGED <<Others, backend, store, group, ckey, tok, cancelled, att,
                   fetchCount, inv, timed, wait, op, hist>>

\* c.client.Set(bgCtx, key, data, ttl)
Set(p) ==
    /\ backend = "redis"
    /\ pc[p] = "set"
    /\ \E ttl \in TTLs, fail \in BOOLEAN :
         IF fail
         THEN /\ res' = [res EXCEPT ![p] = Err("store", 3)]
              /\ store' = store
         ELSE /\ res' = res
              /\ store' = [store EXCEPT ![ckey[p]] = Rec(Marshal(res[p].val), ttl, p)]
    /\ hist' = NoteWrite(p)
    /\ Goto(p, "release")
    /\ UNCHANGED <<Others, backend, group, ckey, tok, cancelled, att, fetchCount,
                   inv, fok, timed, wait, op>>

\* mutant: the release deletes the lock without the ownership check
ReleaseScriptAny(s, lk, t) == [s EXCEPT ![lk] = Nil]

\* mutant: the release never deletes the lock
ReleaseScriptKeep(s, lk, t) == s

\* the release script: if redis.call("get", KEYS[1]) == ARGV[1] then
\* return redis.call("del", KEYS[1]) else return 0 end
ReleaseScript(s, lk, t) ==
    IF s[lk] # Nil /\ s[lk].val = TokenText(t)
    THEN [s EXCEPT ![lk] = Nil]
    ELSE s

\* mutant: the release is issued with the caller's ctx
ReleaseCallerCtx(p) ==
    /\ backend = "redis"
    /\ pc[p] = "release"
    /\ IF cancelled[p]
       THEN /\ store' = store
            /\ hist' = [hist EXCEPT !.relRan[p] = "skipped"]
       ELSE /\ store' = ReleaseScript(store, LockKey(ckey[p]), tok[p])
            /\ hist' = [hist EXCEPT !.relRan[p] =
                                      IF store' = store THEN "noop" ELSE "del"]
    /\ Return(p, res[p])
    /\ UNCHANGED <<Others, backend, group, ckey, tok, cancelled, att, fetchCount,
                   inv, fok, timed, wait, op>>

\* the deferred functions, in LIFO order: cancel() stops extendLock, then
\* c.client.Eval(bgCtx, script, []string{lockKey}, lockValue), whose error
\* is dropped; then GetOrFetch returns the pending result
Release(p) ==
    /\ backend = "redis"
    /\ pc[p] = "release"
    /\ \E fail \in BOOLEAN :
         IF fail
         THEN /\ store' = store
              /\ hist' = [hist EXCEPT !.relRan[p] = "failed"]
         ELSE /\ store' = ReleaseScript(store, LockKey(ckey[p]), tok[p])
              /\ hist' = [hist EXCEPT !.relRan[p] =
                                        IF store' = store THEN "noop" ELSE "del"]
    /\ Return(p, res[p])
    /\ UNCHANGED <<Others, backend, group, ckey, tok, cancelled, att, fetchCount,
                   inv, fok, timed, wait, op>>

\* mutant: the extension leaves the expiry as it is
ExtendScriptKeep(s, lk, t, ttl) == s

\* the extend script: if redis.call("get", KEYS[1]) == ARGV[1] then
\* return redis.call("pexpire", KEYS[1], ARGV[2]) else return 0 end
ExtendScript(s, lk, t, ttl) ==
    IF s[lk] # Nil /\ s[lk].val = TokenText(t)
    THEN [s EXCEPT ![lk].exp = ttl]
    ELSE s

\* one tick of extendLock, which runs from the acquisition until cancel()
ExtendLock(p) ==
    /\ backend = "redis"
    /\ timed
    /\ pc[p] \in {"fetch", "set", "release"}
    /\ store' = ExtendScript(store, LockKey(ckey[p]), tok[p], LockTTL)
    /\ hist' = [hist EXCEPT !.ext[p] =
                   IF ExtendScript(store, LockKey(ckey[p]), tok[p], 0) = store
                   THEN "stale" ELSE "ok",
                             !.due[p] = FALSE]
    /\ UNCHANGED <<Others, backend, group, pc, ckey, tok, res, cancelled, att,
                   fetchCount, inv, fok, timed, wait, op>>

-----------------------------------------------------------------------------
(* redisCacher.waitForCache; the readings of the clock are inputs here     *)

\* top of the loop: select on ctx.Done(), then c.client.Get(ctx, key)
WaitGet(p) ==
    /\ backend = "redis"
    /\ pc[p] = "waitget"
    /\ \E fail \in BOOLEAN :
         LET k == ckey[p] IN
         IF cancelled[p] THEN Return(p, Err("ctx", 0))
         ELSE IF fail THEN Return(p, Err("store", 1))
         ELSE IF store[k] # Nil
         THEN IF Unmarshal(store[k].val).ok
              THEN Return(p, Value(Unmarshal(store[k].val).v))
              ELSE Return(p, Err("unmarshal", 0))
         ELSE Goto(p, "exists") /\ res' = res
    /\ UNCHANGED <<Others, backend, store, group, ckey, tok, cancelled, att,
                   fetchCount, inv, fok, timed, wait, op, hist>>

\* if time.Now().After(deadline) { return zero, errors.New("timeout ...") }
WaitTimeout(p) ==
    /\ backend = "redis"
    /\ pc[p] = "waitget"
    /\ ~cancelled[p]
    /\ Return(p, Err("timeout", 0))
    /\ UNCHANGED <<Others, backend, store, group, ckey, tok, cancelled, att,
                   fetchCount, inv, fok, timed, wait, op, hist>>

\* exists, err := c.client.Exists(ctx, lockKey).Result(); when the lock is
\* still there: time.Sleep(backoff) and the next iteration
WaitExists(p) ==
    /\ backend = "redis"
    /\ pc[p] = "exists"
    /\ \E fail \in BOOLEAN :
         IF CmdFails(p, fail) THEN Return(p, Err("store", 4))
         ELSE IF store[LockKey(ckey[p])] = Nil
         THEN Goto(p, "lastget") /\ res' = res
         ELSE Goto(p, "waitget") /\ res' = res
    /\ UNCHANGED <<Others, backend, store, group, ckey, tok, cancelled, att,
                   fetchCount, inv, fok, timed, wait, op, hist>>

\* mutant: a last read that finds nothing returns the zero value, no error
WaitLastGetNoError(p) ==
    /\ backend = "redis"
    /\ pc[p] = "lastget"
    /\ \E fail \in BOOLEAN :
         IF ~CmdFails(p, fail) /\ store[ckey[p]] # Nil
         THEN Return(p, Value(Unmarshal(store[ckey[p]].val).v))
         ELSE Return(p, Value(0))
    /\ UNCHANGED <<Others, backend, store, group, ckey, tok, cancelled, att,
                   fetchCount, inv, fok, timed, wait, op, hist>>

\* the read made after the lock was found gone: every error of this Get,
\* redis.Nil or not, ends in the same "fetch operation failed" error
WaitLastGet(p) ==
    /\ backend = "redis"
    /\ pc[p] = "lastget"
    /\ \E fail \in BOOLEAN :
         LET k == ckey[p] IN
         IF CmdFails(p, fail) \/ store[k] = Nil
         THEN Return(p, Err("fetchfailed", IF CmdFails(p, fail) THEN 1 ELSE 0))
         ELSE IF Unmarshal(store[k].val).ok
         THEN Return(p, Value(Unmarshal(store[k].val).v))
         ELSE Return(p, Err("unmarshal", 0))
    /\ UNCHANGED <<Others, backend, store, group, ckey, tok, cancelled, att,
                   fetchCount, inv, fok, timed, wait, op, hist>>

-----------------------------------------------------------------------------
(* MemoryCacher.GetOrFetch *)

\* go-cache Get: an item that is in the map and has not expired
\* mutant: an expired item is found until the janitor removes it
FoundUntilCleaned(k) == store[k] # Nil

Found(k) == store[k] # Nil /\ store[k].exp # 0

\* if val, found := c.cache.Get(key); found { return typedVal, nil }
MemGet(p) ==
    /\ backend = "memory"
    /\ p \in Active
    /\ pc[p] = "start"
    /\ \E k \in CallKeys :
         /\ ckey' = [ckey EXCEPT ![p] = k]
         /\ hist' = NoteStart(p, k)
         /\ IF Found(k) THEN Return(p, Value(store[k].val[2]))
            ELSE Goto(p, "do") /\ res' = res
    /\ UNCHANGED <<Others, backend, store, group, tok, cancelled, att, fetchCount,
                   inv, fok, timed, wait, op>>

\* mutant: Do never attaches to the call in flight
MemDoNoCoalesce(p) ==
    /\ backend = "memory"
    /\ pc[p] = "do"
    /\ group' = [group EXCEPT ![ckey[p]] = p]
    /\ Goto(p, "dcheck")
    /\ UNCHANGED <<Others, backend, store, ckey, tok, res, cancelled, att,
                   fetchCount, inv, fok, timed, wait, op, hist>>

\* c.group.Do(key, fn): under the group's mutex, a caller that finds a call
\* for the key waits for it, another one registers a call and runs fn
MemDo(p) ==
    /\ backend = "memory"
    /\ pc[p] = "do"
    /\ IF group[ckey[p]] # 0
       THEN /\ att' = [att EXCEPT ![p] = group[ckey[p]]]
            /\ Goto(p, "attached")
            /\ group' = group
       ELSE /\ group' = [group EXCEPT ![ckey[p]] = p]
            /\ Goto(p, "dcheck")
            /\ att' = att
    /\ UNCHANGED <<Others, backend, store, ckey, tok, res, cancelled, fetchCount,
                   inv, fok, timed, wait, op, hist>>

\* fn: the second c.cache.Get(key); on a miss fetchFn(ctx) is called
MemDoubleCheck(p) ==
    /\ backend = "memory"
    /\ pc[p] = "dcheck"
    /\ LET k == ckey[p]
           id == fetchCount[k] + 1 IN
       IF Found(k)
       THEN /\ res' = [res EXCEPT ![p] = Value(store[k].val[2])]
            /\ Goto(p, "finish")
            /\ UNCHANGED <<fetchCount, inv>>
       ELSE /\ fetchCount' = [fetchCount EXCEPT ![k] = id]
            /\ inv' = [inv EXCEPT ![p] = id]
            /\ Goto(p, "mfetch")
            /\ res' = res
    /\ UNCHANGED <<Others, backend, store, group, ckey, tok, cancelled, att, fok,
                   timed, wait, op, hist>>

\* fetchedVal, err := fetchFn(ctx) returns
MemFetch(p) ==
    /\ backend = "memory"
    /\ pc[p] = "mfetch"
    /\ \E ok \in BOOLEAN :
         IF ok
         THEN /\ fok' = [fok EXCEPT ![p] = "ok"]
              /\ res' = [res EXCEPT ![p] = Value(inv[p])]
              /\ Goto(p, "mset")
         ELSE /\ fok' = [fok EXCEPT ![p] = "err"]
              /\ res' = [res EXCEPT ![p] = Err("fetcherr", inv[p])]
              /\ Goto(p, "finish")
    /\ UNCHANGED <<Others, backend, store, group, ckey, tok, cancelled, att,
                   fetchCount, inv, timed, wait, op, hist>>

\* c.cache.Set(key, fetchedVal, ttl)
MemSet(p) ==
    /\ backend = "memory"
    /\ pc[p] = "mset"
    /\ \E ttl \in TTLs :
         store' = [store EXCEPT ![ckey[p]] = Rec(<<"item", res[p].val>>, ttl, p)]
    /\ hist' = NoteWrite(p)
    /\ Goto(p, "finish")
    /\ UNCHANGED <<Others, backend, group, ckey, tok, res, cancelled, att,
                   fetchCount, inv, fok, timed, wait, op>>

\* mutant: the call stays registered after it is done
MemFinishKeep(p) ==
    /\ backend = "memory"
    /\ pc[p] = "finish"
    /\ Return(p, res[p])
    /\ UNCHANGED <<Others, backend, store, group, ckey, tok, cancelled, att,
                   fetchCount, inv, fok, timed, wait, op, hist>>

\* singleflight doCall after fn: under the mutex, c.wg.Done() and
\* delete(g.m, key); Do returns and GetOrFetch returns val or err
MemFinish(p) ==
    /\ backend = "memory"
    /\ pc[p] = "finish"
    /\ group' = [group EXCEPT ![ckey[p]] = IF @ = p THEN 0 ELSE @]
    /\ Return(p, res[p])
    /\ UNCHANGED <<Others, backend, store, ckey, tok, cancelled, att, fetchCount,
                   inv, fok, timed, wait, op, hist>>

\* a caller blocked in c.wg.Wait() wakes up once the call is done and
\* returns the call's val and err
MemJoin(p) ==
    /\ backend = "memory"
    /\ pc[p] = "attached"
    /\ pc[att[p]] = "done"
    /\ Return(p, res[att[p]])
    /\ UNCHANGED <<Others, backend, store, group, ckey, tok, cancelled, att,
                   fetchCount, inv, fok, timed, wait, op, hist>>

-----------------------------------------------------------------------------
(* Environment *)

\* ExtendInterval seconds pass: every record with an expiry ages; a Redis
\* record whose life time is over is gone, a go-cache item stays in the map
\* (exp = 0) until the janitor deletes it
Age(r) ==
    IF r = Nil \/ r.exp <= 0 THEN r
    ELSE IF r.exp > ExtendInterval THEN [r EXCEPT !.exp = @ - ExtendInterval]
    ELSE IF backend = "redis" THEN Nil
    ELSE [r EXCEPT !.exp = 0]

\* ExtendInterval passes. history, kept in the runs with hist.track: due:
\* the ticker of the call's extendLock has fired and its extension has not
\* run yet; missed: an interval has passed during the call's fetchFn whose
\* extension did not run (the tick came late or the store did not execute
\* the script); ticks: the intervals passed during the call's fetchFn,
\* counted up to MaxFetchTicks
Tick ==
    /\ timed
    /\ \E k \in StoreKeys : store[k] # Nil /\ store[k].exp > 0
    /\ store' = [k \in StoreKeys |-> Age(store[k])]
    /\ hist' = [hist EXCEPT !.lockExpired =
                   @ \/ \E k \in AllKeys : /\ store[LockKey(k)] # Nil
                                           /\ store'[LockKey(k)] = Nil,
                             !.age = [k \in AllKeys |->
                                        IF hist.wttl[k] > 0 /\ @[k] < MaxTTLSteps
                                        THEN @[k] + 1 ELSE @[k]],
                             !.due = [p \in Procs |->
                                        hist.track /\ pc[p] = "fetch"],
                             !.ticks = [p \in Procs |->
                                          IF ~hist.track \/ pc[p] # "fetch" THEN 0
                                          ELSE IF @[p] < MaxFetchTicks
                                          THEN @[p] + 1 ELSE @[p]],
                             !.missed = [p \in Procs |->
                                           @[p] \/ (pc[p] = "fetch" /\ hist.due[p])]]
    /\ UNCHANGED <<Others, backend, group, pc, ckey, tok, res, cancelled, att,
                   fetchCount, inv, fok, timed, wait, op>>

\* go-cache janitor: DeleteExpired
Janitor ==
    /\ backend = "memory"
    /\ \E k \in StoreKeys : store[k] # Nil /\ store[k].exp = 0
    /\ store' = [k \in StoreKeys |->
                   IF store[k] # Nil /\ store[k].exp = 0 THEN Nil ELSE store[k]]
    /\ UNCHANGED <<Others, backend, group, pc, ckey, tok, res, cancelled, att,
                   fetchCount, inv, fok, timed, wait, op, hist>>

\* the caller's context is cancelled or passes its deadline while the call
\* runs fetchFn or waits
Cancel(p) ==
    /\ pc[p] \in {"fetch", "waitget", "exists", "lastget", "mfetch", "attached"}
    /\ ~cancelled[p]
    /\ cancelled' = [cancelled EXCEPT ![p] = TRUE]
    /\ UNCHANGED <<Others, backend, store, group, pc, ckey, tok, res, att,
                   fetchCount, inv, fok, timed, wait, op, hist>>

-----------------------------------------------------------------------------
RedisStep(p) ==
    \/ GetFirst(p)
    \/ SetNX(p)
    \/ Fetch(p)
    \/ Set(p)
    \/ Release(p)
    \/ ExtendLock(p)
    \/ WaitGet(p)
    \/ WaitTimeout(p)
    \/ WaitExists(p)
    \/ WaitLastGet(p)

MemStep(p) ==
    \/ MemGet(p)
    \/ MemDo(p)
    \/ MemDoubleCheck(p)
    \/ MemFetch(p)
    \/ MemSet(p)
    \/ MemFinish(p)
    \/ MemJoin(p)

Next ==
    \/ \E p \in Procs : RedisStep(p)
    \/ \E p \in Procs : MemStep(p)
    \/ \E p \in Procs : Cancel(p)
    \/ Tick
    \/ Janitor

Spec == Init /\ [][Next]_vars

\* the runs of the remote variant in which records expire and the
\* extensions of every call are followed
LockInit ==
    /\ ColdStart
    /\ backend = "redis" /\ timed /\ hist.track
    /\ op = OpOff
    /\ OthersIdle

LockNext ==
    \/ \E p \in Procs : RedisStep(p)
    \/ \E p \in Procs : Cancel(p)
    \/ Tick

SpecLock == LockInit /\ [][LockNext]_vars

-----------------------------------------------------------------------------
(* waitForCache with its clock: call 1 has lost the acquisition to call 2,   *)
(* whose fetchFn is running. Time is in milliseconds; a store command takes  *)
(* up to MaxLatency, time.Sleep(backoff) takes backoff, the rest no time.    *)

Waiter == 1
Winner == 2

\* the rest of the state while the waiter polls
WaitFrame == <<Others, backend, group, pc, ckey, tok, res, cancelled, att,
               fetchCount, inv, fok, timed, hist, op>>

WaitInit ==
    /\ backend = "redis"
    /\ timed = FALSE
    /\ ckey = [p \in Procs |-> CHOOSE k \in Keys : TRUE]
    /\ store = [k \in StoreKeys |->
                  IF k = LockKey(ckey[Winner])
                  THEN Rec(TokenText(LockValue(Winner)), LockTTL, Winner)
                  ELSE Nil]
    /\ group = [k \in AllKeys |-> 0]
    /\ pc = [p \in Procs |-> IF p = Waiter THEN "waitget"
                             ELSE IF p = Winner THEN "fetch" ELSE "start"]
    /\ tok = [p \in Procs |-> IF p = Winner THEN LockValue(Winner) ELSE 0]
    /\ res = [p \in Procs |-> NoRes]
    /\ cancelled = [p \in Procs |-> FALSE]
    /\ att = [p \in Procs |-> 0]
    /\ fetchCount = [k \in AllKeys |-> IF k = ckey[Winner] THEN 1 ELSE 0]
    /\ inv = [p \in Procs |-> IF p = Winner THEN 1 ELSE 0]
    /\ fok = [p \in Procs |-> "none"]
    /\ hist = [conc |-> TRUE, lockExpired |-> FALSE, retry |-> 0,
               lostTo |-> [p \in Procs |-> IF p = Waiter THEN Winner ELSE 0],
               wrote |-> [p \in Procs |-> FALSE],
               relRan |-> [p \in Procs |-> "no"],
               ext |-> [p \in Procs |-> "none"],
               track |-> FALSE,
               due |-> [p \in Procs |-> FALSE],
               missed |-> [p \in Procs |-> FALSE],
               ticks |-> [p \in Procs |-> 0],
               wttl |-> [k \in AllKeys |-> 0],
               age |-> [k \in AllKeys |-> 0]]
    /\ wait = WaitStart
    /\ op = OpOff
    /\ OthersIdle

WaitReturn(r, t) == wait' = [wait EXCEPT !.pc = "done", !.res = r, !.now = t]

WaitGoto(l, t) == wait' = [wait EXCEPT !.pc = l, !.now = t]

\* mutant: the loop does not look at ctx
WaitCheckNoCtx ==
    /\ wait.pc = "check"
    /\ IF wait.now > wait.deadline
       THEN WaitReturn(Err("timeout", 0), wait.now)
       ELSE WaitGoto("get", wait.now)
    /\ UNCHANGED <<store, WaitFrame>>

\* select { case <-ctx.Done(): return zero, ctx.Err() default: }
\* if time.Now().After(deadline) { return zero, errors.New("timeout ...") }
WaitCheck ==
    /\ wait.pc = "check"
    /\ IF wait.ctxDone THEN WaitReturn(Err("ctx", 0), wait.now)
       ELSE IF wait.now > wait.deadline
       THEN WaitReturn(Err("timeout", 0), wait.now)
       ELSE WaitGoto("get", wait.now)
    /\ UNCHANGED <<store, WaitFrame>>

\* val, err := c.client.Get(ctx, key).Result() in the loop
WaitPollGet ==
    /\ wait.pc = "get"
    /\ \E d \in 0..MaxLatency, fail \in BOOLEAN :
         LET k == ckey[Waiter]
             t == wait.now + d IN
         IF store[k] # Nil /\ ~(fail \/ wait.ctxDone)
         THEN IF Unmarshal(store[k].val).ok
              THEN WaitReturn(Value(Unmarshal(store[k].val).v), t)
              ELSE WaitReturn(Err("unmarshal", 0), t)
         ELSE IF fail \/ wait.ctxDone THEN WaitReturn(Err("store", 1), t)
         ELSE WaitGoto("exists", t)
    /\ UNCHANGED <<store, WaitFrame>>

\* exists, err := c.client.Exists(ctx, lockKey).Result()
WaitPollExists ==
    /\ wait.pc = "exists"
    /\ \E d \in 0..MaxLatency, fail \in BOOLEAN :
         LET t == wait.now + d IN
         IF fail \/ wait.ctxDone THEN WaitReturn(Err("store", 4), t)
         ELSE IF store[LockKey(ckey[Waiter])] = Nil THEN WaitGoto("lastget", t)
         ELSE WaitGoto("sleep", t)
    /\ UNCHANGED <<store, WaitFrame>>

\* the read made when exists == 0
WaitPollLastGet ==
    /\ wait.pc = "lastget"
    /\ \E d \in 0..MaxLatency, fail \in BOOLEAN :
         LET k == ckey[Waiter]
             t == wait.now + d IN
         IF fail \/ wait.ctxDone \/ store[k] = Nil
         THEN WaitReturn(Err("fetchfailed",
                             IF fail \/ wait.ctxDone THEN 1 ELSE 0), t)
         ELSE IF Unmarshal(store[k].val).ok
         THEN WaitReturn(Value(Unmarshal(store[k].val).v), t)
         ELSE WaitReturn(Err("unmarshal", 0), t)
    /\ UNCHANGED <<store, WaitFrame>>

\* mutant: the backoff is doubled without the cap
WaitSleepNoCap ==
    /\ wait.pc = "sleep"
    /\ wait' = [wait EXCEPT !.pc = "check",
                            !.now = @ + wait.backoff,
                            !.slept = @ + 1,
                            !.backoff = 2 * @]
    /\ UNCHANGED <<store, WaitFrame>>

\* time.Sleep(backoff); backoff *= 2; if backoff > maxBackoff { backoff =
\* maxBackoff }
WaitSleep ==
    /\ wait.pc = "sleep"
    /\ wait' = [wait EXCEPT !.pc = "check",
                            !.now = @ + wait.backoff,
                            !.slept = @ + 1,
                            !.backoff = IF 2 * @ > MaxBackoff
                                        THEN MaxBackoff ELSE 2 * @]
    /\ UNCHANGED <<store, WaitFrame>>

\* the winner's c.client.Set(bgCtx, key, data, ttl) happens
WinnerSets ==
    /\ wait.pc # "done"
    /\ store[ckey[Winner]] = Nil
    /\ store[LockKey(ckey[Winner])] # Nil
    /\ \E ttl \in TTLs :
         store' = [store EXCEPT ![ckey[Winner]] = Rec(Marshal(inv[Winner]), ttl, Winner)]
    /\ UNCHANGED <<WaitFrame, wait>>

\* the winner's deferred release happens
WinnerReleases ==
    /\ wait.pc # "done"
    /\ store' = ReleaseScript(store, LockKey(ckey[Winner]), tok[Winner])
    /\ store' # store
    /\ UNCHANGED <<WaitFrame, wait>>

\* the waiter's ctx is cancelled
WaitCancel ==
    /\ wait.pc # "done"
    /\ ~wait.ctxDone
    /\ wait' = [wait EXCEPT !.ctxDone = TRUE, !.ctxAt = wait.now]
    /\ UNCHANGED <<store, WaitFrame>>

WaitNext ==
    \/ WaitCheck
    \/ WaitPollGet
    \/ WaitPollExists
    \/ WaitPollLastGet
    \/ WaitSleep
    \/ WinnerSets
    \/ WinnerReleases
    \/ WaitCancel

SpecWait == WaitInit /\ [][WaitNext]_vars

-----------------------------------------------------------------------------
(* Delete, Clear, ItemCount and DeleteByPrefix, called one after the other   *)
(* by one goroutine while up to NumTimedCallers GetOrFetch calls run on the  *)
(* keys "a", "a:lock" and "b".                                               *)

\* calls of Delete, Clear and DeleteByPrefix made in a run
MaxOps == 1

\* prefix arguments of DeleteByPrefix: "", "a" and "b"
Prefixes == {<<>>, <<"a">>, <<"b">>}

\* strings.HasPrefix(key, prefix)
HasPrefix(key, prefix) ==
    /\ Len(prefix) <= Len(key)
    /\ SubSeq(key, 1, Len(prefix)) = prefix

\* the keys of the database / of the go-cache item map in store s
KeysIn(s) == {k \in StoreKeys : s[k] # Nil}

OpsFrame == <<Others, backend, group, pc, ckey, tok, res, cancelled, att,
              fetchCount, inv, fok, timed, hist, wait>>

OpsInit ==
    /\ ColdStart
    /\ ~timed /\ ~hist.track
    /\ op = [OpOff EXCEPT !.on = TRUE, !.left = MaxOps]
    /\ OthersIdle

\* a call begins: kind and argument; history: the number of keys the call
\* has removed
OpBegin(kind, arg) ==
    [op EXCEPT !.kind = kind, !.arg = arg, !.ctxDone = FALSE, !.snap = {},
               !.n = 0, !.res = NoRes, !.left = @ - 1, !.removed = 0,
               !.flying = {}]

\* history: the store when a DeleteByPrefix call begins, kept until it returns
Remember(o) == [o EXCEPT !.pre = store]

\* the call returns (n, r); history: it has removed the keys in gone
OpReturn(o, r, n, gone) ==
    [o EXCEPT !.pc = "idle", !.res = r, !.n = n, !.snap = {},
              !.pre = OpOff.pre, !.removed = @ + Cardinality(gone)]

\* history: the GetOrFetch calls on key k whose fetchFn has been invoked and
\* whose value is not stored yet, noted when a Delete(k) succeeds
Flying(o, k) ==
    [o EXCEPT !.flying = {p \in Procs : /\ ckey[p] = k
                                        /\ pc[p] \in {"fetch", "set",
                                                       "mfetch", "mset"}}]

\* the goroutine can make a call that changes the store
OpIdle == op.on /\ op.pc = "idle" /\ op.left > 0

\* a call of ItemCount begins
CountBegin == [OpBegin("ItemCount", <<>>) EXCEPT !.left = op.left]

Ok == [kind |-> "ok", val |-> 0]

\* a call of the MemoryCacher begins with a ctx that is already done
DoneAtEntry(o) == [o EXCEPT !.ctxDone = TRUE]

\* mutant: Delete removes every key
DeleteEverything ==
    /\ backend = "redis"
    /\ OpIdle
    /\ \E k \in OpKeys :
         /\ store' = [j \in StoreKeys |-> Nil]
         /\ op' = OpReturn(OpBegin("Delete", k), Ok, 0, KeysIn(store))
    /\ UNCHANGED OpsFrame

\* redisCacher.Delete: c.client.Del(ctx, key)
Delete ==
    /\ backend = "redis"
    /\ OpIdle
    /\ \E k \in OpKeys, fail \in BOOLEAN :
         IF fail
         THEN /\ store' = store
              /\ op' = OpReturn(OpBegin("Delete", k), Err("store", 5), 0, {})
         ELSE /\ store' = [store EXCEPT ![k] = Nil]
              /\ op' = Flying(OpReturn(OpBegin("Delete", k), Ok, 0,
                                       KeysIn(store) \cap {k}), k)
    /\ UNCHANGED OpsFrame

\* redisCacher.Clear: c.client.FlushDB(ctx)
Clear ==
    /\ backend = "redis"
    /\ OpIdle
    /\ \E fail \in BOOLEAN :
         IF fail
         THEN /\ store' = store
              /\ op' = OpReturn(OpBegin("Clear", <<>>), Err("store", 6), 0, {})
         ELSE /\ store' = [k \in StoreKeys |-> Nil]
              /\ op' = OpReturn(OpBegin("Clear", <<>>), Ok, 0, KeysIn(store))
    /\ UNCHANGED OpsFrame

\* redisCacher.ItemCount: c.client.DBSize(ctx)
ItemCount ==
    /\ backend = "redis"
    /\ op.on /\ op.pc = "idle"
    /\ \E fail \in BOOLEAN :
         IF fail
         THEN op' = OpReturn(CountBegin, Err("store", 7), 0, {})
         ELSE op' = OpReturn(CountBegin, Ok,
                             Cardinality(KeysIn(store)), {})
    /\ UNCHANGED <<store, OpsFrame>>

\* redisCacher.DeleteByPrefix, the SCAN loop: the keys matching prefix+"*"
\* are collected in keysToDelete; ctx is checked for every key returned
DeleteByPrefixScan ==
    /\ backend = "redis"
    /\ OpIdle
    /\ \E prefix \in Prefixes, out \in {"ok", "fail", "ctx"} :
         LET found == {k \in KeysIn(store) : HasPrefix(k, prefix)}
             o == OpBegin("DeleteByPrefix", prefix) IN
         IF out = "fail" THEN op' = OpReturn(o, Err("store", 8), 0, {})
         ELSE IF out = "ctx" /\ found # {}
         THEN op' = OpReturn(o, Err("ctx", 0), 0, {})
         ELSE IF found = {} THEN op' = OpReturn(o, Ok, 0, {})
         ELSE op' = [Remember(o) EXCEPT !.pc = "del", !.snap = found]
    /\ UNCHANGED <<store, OpsFrame>>

\* redisCacher.DeleteByPrefix: deleted, err := c.client.Del(ctx,
\* keysToDelete...); deletedCount = int(deleted)
DeleteByPrefixDel ==
    /\ backend = "redis"
    /\ op.pc = "del"
    /\ \E fail \in BOOLEAN :
         IF fail
         THEN /\ store' = store
              /\ op' = OpReturn(op, Err("store", 5), 0, {})
         ELSE /\ store' = [k \in StoreKeys |->
                             IF k \in op.snap THEN Nil ELSE store[k]]
              /\ op' = OpReturn(op, Ok, Cardinality(KeysIn(store) \cap op.snap),
                                KeysIn(store) \cap op.snap)
    /\ UNCHANGED OpsFrame

\* MemoryCacher.Delete: the ctx check, then c.cache.Delete(key)
MemDelete ==
    /\ backend = "memory"
    /\ OpIdle
    /\ \E k \in OpKeys, done \in BOOLEAN :
         IF done
         THEN /\ store' = store
              /\ op' = OpReturn(DoneAtEntry(OpBegin("Delete", k)), Err("ctx", 0),
                                0, {})
         ELSE /\ store' = [store EXCEPT ![k] = Nil]
              /\ op' = Flying(OpReturn(OpBegin("Delete", k), Ok, 0,
                                       KeysIn(store) \cap {k}), k)
    /\ UNCHANGED OpsFrame

\* mutant: Clear without the ctx check
MemClearNoCtx ==
    /\ backend = "memory"
    /\ OpIdle
    /\ \E done \in BOOLEAN :
         LET o == IF done THEN DoneAtEntry(OpBegin("Clear", <<>>))
                  ELSE OpBegin("Clear", <<>>) IN
         /\ store' = [k \in StoreKeys |-> Nil]
         /\ op' = OpReturn(o, Ok, 0, KeysIn(store))
    /\ UNCHANGED OpsFrame

\* MemoryCacher.Clear: the ctx check, then c.cache.Flush()
MemClear ==
    /\ backend = "memory"
    /\ OpIdle
    /\ \E done \in BOOLEAN :
         IF done
         THEN /\ store' = store
              /\ op' = OpReturn(DoneAtEntry(OpBegin("Clear", <<>>)),
                                Err("ctx", 0), 0, {})
         ELSE /\ store' = [k \in StoreKeys |-> Nil]
              /\ op' = OpReturn(OpBegin("Clear", <<>>), Ok, 0, KeysIn(store))
    /\ UNCHANGED OpsFrame

\* MemoryCacher.ItemCount: the ctx check, then c.cache.ItemCount(), the
\* size of the item map
MemItemCount ==
    /\ backend = "memory"
    /\ op.on /\ op.pc = "idle"
    /\ \E done \in BOOLEAN :
         IF done
         THEN op' = OpReturn(DoneAtEntry(CountBegin), Err("ctx", 0), 0, {})
         ELSE op' = OpReturn(CountBegin, Ok,
                             Cardinality(KeysIn(store)), {})
    /\ UNCHANGED <<store, OpsFrame>>

\* MemoryCacher.DeleteByPrefix: the ctx check, then items :=
\* c.cache.Items(), a copy of the unexpired items
MemDeleteByPrefixItems ==
    /\ backend = "memory"
    /\ OpIdle
    /\ \E prefix \in Prefixes, done \in BOOLEAN :
         LET items == {k \in StoreKeys : Found(k)}
             o == OpBegin("DeleteByPrefix", prefix) IN
         IF done THEN op' = OpReturn(DoneAtEntry(o), Err("ctx", 0), 0, {})
         ELSE IF items = {} THEN op' = OpReturn(o, Ok, 0, {})
         ELSE op' = [Remember(o) EXCEPT !.pc = "loop", !.snap = items]
    /\ UNCHANGED <<store, OpsFrame>>

\* MemoryCacher.DeleteByPrefix, one iteration of for key := range items:
\* the ctx check; if strings.HasPrefix(key, prefix) { c.cache.Delete(key);
\* deletedCount++ }; after the last key: return deletedCount, nil
MemDeleteByPrefixLoop ==
    /\ backend = "memory"
    /\ op.pc = "loop"
    /\ \E k \in op.snap :
         LET hit == HasPrefix(k, op.arg)
             n == IF hit THEN op.n + 1 ELSE op.n
             gone == IF hit THEN KeysIn(store) \cap {k} ELSE {}
             rest == op.snap \ {k} IN
         IF op.ctxDone
         THEN /\ store' = store
              /\ op' = OpReturn(op, Err("ctx", 0), op.n, {})
         ELSE /\ store' = IF hit THEN [store EXCEPT ![k] = Nil] ELSE store
              /\ op' = IF rest = {} THEN OpReturn(op, Ok, n, gone)
                       ELSE [op EXCEPT !.snap = rest, !.n = n,
                                       !.removed = @ + Cardinality(gone)]
    /\ UNCHANGED OpsFrame

\* the ctx of the DeleteByPrefix call is cancelled during the iteration
OpCancel ==
    /\ op.pc = "loop"
    /\ ~op.ctxDone
    /\ op' = [op EXCEPT !.ctxDone = TRUE]
    /\ UNCHANGED <<store, OpsFrame>>

\* a Delete(k) call of another goroutine succeeds while DeleteByPrefix runs
OtherDelete ==
    /\ op.pc \in {"del", "loop"}
    /\ \E k \in OpKeys :
         /\ store[k] # Nil
         /\ store' = [store EXCEPT ![k] = Nil]
    /\ UNCHANGED <<OpsFrame, op>>

OpsNext ==
    \/ \E p \in Procs :
         \/ GetFirst(p) \/ SetNX(p) \/ Fetch(p) \/ Set(p) \/ Release(p)
         \/ WaitGet(p) \/ WaitTimeout(p) \/ WaitExists(p) \/ WaitLastGet(p)
    \/ \E p \in Procs :
         \/ MemGet(p) \/ MemDo(p) \/ MemDoubleCheck(p) \/ MemFetch(p)
         \/ MemSet(p) \/ MemFinish(p) \/ MemJoin(p)
    \/ Delete \/ Clear \/ ItemCount
    \/ DeleteByPrefixScan \/ DeleteByPrefixDel
    \/ MemDelete \/ MemClear \/ MemItemCount
    \/ MemDeleteByPrefixItems \/ MemDeleteByPrefixLoop
    \/ OpCancel \/ OtherDelete

SpecOps == OpsInit /\ [][OpsNext]_vars

\* the scheduler runs every goroutine that can take a step and the store
\* answers every command; fetchFn is user code and may never return; the
\* clock passes, so a waiter that keeps polling finds its deadline passed
Fairness ==
    \A p \in Procs :
        /\ WF_vars(GetFirst(p))
        /\ WF_vars(SetNX(p))
        /\ WF_vars(Set(p))
        /\ WF_vars(Release(p))
        /\ WF_vars(WaitGet(p))
        /\ WF_vars(WaitExists(p))
        /\ WF_vars(WaitLastGet(p))
        /\ SF_vars(WaitTimeout(p))

FairSpec == Init /\ [][Next]_vars /\ Fairness

-----------------------------------------------------------------------------
(* Properties *)

Called == {p \in Procs : pc[p] # "start"}

AllReturned == Called # {} /\ \A p \in Called : pc[p] = "done"

Waiting(p) == pc[p] \in {"waitget", "exists", "lastget"}

\* the lock record of p's key holds p's token
HoldsLock(p) ==
    /\ store[LockKey(ckey[p])] # Nil
    /\ store[LockKey(ckey[p])].val = TokenText(tok[p])

\* no command failed, no wait was given up and no fetchFn failed in this run
CleanRun ==
    \A p \in Called :
        /\ res[p].kind \notin {"store", "ctx", "timeout", "marshal", "fetchfailed"}
        /\ fok[p] # "err"
        /\ hist.relRan[p] # "failed"
        /\ ~cancelled[p]

\* C1: remote variant: N concurrent GetOrFetch calls on a key without entry
\* and without lock invoke fetchFn exactly once in total and every call
\* returns the value of that invocation
C1_SingleFetchRemote ==
    (/\ backend = "redis" /\ ~timed
     /\ hist.conc /\ AllReturned /\ CleanRun)
    => \A p \in Called : fetchCount[ckey[p]] = 1 /\ res[p] = Value(1)

C3_StaleTokenNoEffect ==
    [][\A p \in Procs :
         (/\ pc[p] \in {"fetch", "set", "release"}
          /\ ~HoldsLock(p)
          /\ \/ pc[p] = "release" /\ pc'[p] = "done"
             \/ hist'.ext[p] # hist.ext[p])
         => store' = store]_vars

C3_Witness ==
    \E p \in Procs :
        /\ hist.relRan[p] = "noop" /\ hist.ext[p] = "stale"
        /\ store[LockKey(ckey[p])] # Nil
        /\ store[LockKey(ckey[p])].by # p
        /\ store[LockKey(ckey[p])].exp < LockTTL

C5_LockNeverOutlivesCall ==
    \A p \in Procs : (pc[p] = "done" /\ tok[p] # 0) => ~HoldsLock(p)

\* C5 as amended: remote variant: on every exit path of a call that acquired
\* the lock the release script is sent before the call returns, whatever the
\* state of the caller's ctx, and unless the store fails to run it no lock
\* record with the call's token is left when the call returns
C5_ReleaseOnEveryPath ==
    \A p \in Procs :
        (pc[p] = "done" /\ tok[p] # 0) =>
            /\ hist.relRan[p] \in {"del", "noop", "failed"}
            /\ hist.relRan[p] # "failed" => ~HoldsLock(p)

C5_Witness ==
    \E p \in Procs :
        /\ pc[p] = "done" /\ tok[p] # 0 /\ cancelled[p]
        /\ fok[p] = "err" /\ hist.relRan[p] = "del"

\* C6: when the executing call's fetchFn succeeds the value is written
\* before the coordination state is released and before the call returns:
\* remote, the release script of a call that returns a value runs after its
\* Set; local, the registration of the call is removed after its Set
C6_WriteBeforeRelease ==
    \A p \in Procs :
        /\ (/\ backend = "redis" /\ fok[p] = "ok" /\ res[p].kind = "value"
            /\ (hist.relRan[p] # "no" \/ pc[p] = "done"))
           => hist.wrote[p]
        /\ (/\ backend = "memory" /\ fok[p] = "ok"
            /\ (group[ckey[p]] # p \/ pc[p] = "done"))
           => hist.wrote[p]

C6_Witness ==
    \E p \in Procs :
        /\ backend = "redis" /\ pc[p] = "done" /\ res[p].kind = "value"
        /\ hist.relRan[p] = "del" /\ hist.wrote[p]
        /\ store[ckey[p]].by = p

\* C7: remote variant: when the winner's fetchFn succeeded and its entry is
\* in the store, a caller that lost the acquisition to it and met no
\* cancellation, timeout or store failure returns the winner's value, never
\* the "fetch operation failed" error
C7_LosersGetWinnersValue ==
    \A p \in Procs :
        LET w == hist.lostTo[p] IN
        (/\ backend = "redis" /\ ~timed
         /\ pc[p] = "done" /\ w # 0
         /\ fok[w] = "ok" /\ hist.wrote[w]
         /\ store[ckey[p]] # Nil /\ store[ckey[p]].by = w
         /\ \A q \in Procs : /\ ~cancelled[q] /\ fok[q] # "err"
                             /\ hist.relRan[q] # "failed"
                             /\ res[q].kind \notin {"store", "timeout", "ctx"}
         /\ res[p] # Err("fetchfailed", 1))
        => res[p] = Value(inv[w])

\* p lost the acquisition to a call whose fetchFn has returned an error
LostToFailed(p) == hist.lostTo[p] # 0 /\ fok[hist.lostTo[p]] = "err"

\* C8 as stated: remote variant: a caller that waited for a winner whose
\* fetchFn returned an error returns an error
C8_WaitersGetError ==
    \A p \in Procs :
        (~timed /\ pc[p] = "done" /\ LostToFailed(p)) => res[p].kind \in ErrKinds

\* C8 as amended: remote variant: a caller waiting for a winner whose
\* fetchFn returned an error eventually returns: an error, or the value of a
\* later call that has written it in the meantime; no waiter blocks forever
C8_WaitersReturn ==
    /\ \A p \in Procs : (Waiting(p) /\ LostToFailed(p)) ~> (pc[p] = "done")
    /\ [](\A p \in Procs :
            (pc[p] = "done" /\ LostToFailed(p)) =>
                \/ res[p].kind \in {"fetchfailed", "ctx", "timeout", "store"}
                \/ \E q \in Procs \ {hist.lostTo[p]} :
                       hist.wrote[q] /\ res[p] = Value(inv[q]))

C8_Witness ==
    \E p \in Procs :
        /\ pc[p] = "done" /\ LostToFailed(p)
        /\ res[p] = Err("fetchfailed", 0)
        /\ store[LockKey(ckey[p])] = Nil

\* the winner has not completed: the lock record is held and no entry exists
WinnerHangs ==
    /\ store[ckey[Waiter]] = Nil
    /\ store[LockKey(ckey[Waiter])] # Nil

\* C9 as stated: remote variant: a waiter whose winner never completes
\* returns the timeout error, no earlier than the wait deadline and no later
\* than the deadline plus one backoff step (at most 500 ms)
C9_TimeoutWithinOneStep ==
    (wait.pc = "done" /\ wait.res.kind = "timeout") =>
        /\ wait.now >= wait.deadline
        /\ wait.now <= wait.deadline + MaxBackoff

\* C9 as amended: remote variant: a waiter whose winner never completes and
\* that meets no cancellation and no store failure returns the timeout
\* error; the timeout error is returned after the wait deadline and no
\* later than the deadline plus one backoff step (at most 500 ms) plus the
\* time the two store commands of the last iteration took; no waiter is
\* still polling after that
C9_TimeoutBounds ==
    /\ (wait.pc = "done" /\ wait.res.kind = "timeout") =>
          /\ wait.now > wait.deadline
          /\ wait.now <= wait.deadline + MaxBackoff + 2 * MaxLatency
    /\ (/\ wait.pc = "done" /\ WinnerHangs
        /\ ~wait.ctxDone /\ wait.res.kind # "store")
       => wait.res.kind = "timeout"
    /\ wait.pc # "done" =>
          wait.now <= wait.deadline + MaxBackoff + 2 * MaxLatency

C9_Witness ==
    /\ wait.pc = "done" /\ wait.res.kind = "timeout"
    /\ WinnerHangs /\ ~wait.ctxDone
    /\ wait.backoff = MaxBackoff
    /\ wait.now > wait.deadline + MaxBackoff

\* the key has an entry that a read finds
Present(k) == IF backend = "redis" THEN store[k] # Nil ELSE Found(k)

\* C10: both variants: GetOrFetch on a key that has an entry returns the
\* stored value, invokes no fetchFn, creates no lock record and no in-flight
\* registration and leaves the store unchanged
C10_HitTakesNoLock ==
    [][\A p \in Procs :
         (/\ pc[p] = "start" /\ pc'[p] # "start"
          /\ Present(ckey'[p])
          /\ res'[p].kind # "store")
         => /\ pc'[p] = "done"
            /\ res'[p] = Value(store[ckey'[p]].val[2])
            /\ store' = store
            /\ group' = group
            /\ fetchCount' = fetchCount]_vars

C10_Witness ==
    \E p \in Procs :
        /\ backend = "redis" /\ pc[p] = "done" /\ res[p].kind = "value"
        /\ inv[p] = 0 /\ hist.lostTo[p] = 0
        /\ store[LockKey(ckey[p])] = Nil

\* the lock record of key k belongs to a fetch that is in flight
InFlightLock(k) ==
    /\ store[LockKey(k)] # Nil
    /\ \E p \in Procs : /\ pc[p] \in {"fetch", "set", "release"}
                        /\ ckey[p] = k /\ HoldsLock(p)

\* C11: remote variant: the lock record of a fetch in flight is removed only
\* by the release step of the call whose token it holds (or by expiry of its
\* TTL, which does not occur in these runs); no Delete, Clear or
\* DeleteByPrefix call removes it (stated for the keys whose lock key is not
\* itself used as a cache key)
C11_LockRemovedOnlyByOwner ==
    [][\A k \in OpKeys :
         (/\ LockKey(k) \notin OpKeys
          /\ InFlightLock(k) /\ store'[LockKey(k)] = Nil)
         => \E p \in Procs : /\ pc[p] = "release" /\ pc'[p] = "done"
                             /\ ckey[p] = k /\ HoldsLock(p)]_vars

\* the record under store key k was written as a lock record
IsLockRecord(k) == store[k] # Nil /\ store[k].val[1] = "digits"

\* the record under store key k was written as a cache entry
IsEntry(k) == store[k] # Nil /\ store[k].val[1] # "digits"

\* C12: remote variant: a lock record and a cache entry never share a store
\* key: no GetOrFetch call reads a lock record as its cache entry, takes a
\* cache entry for the lock of its key, or overwrites a lock record with its
\* value
C12_LockKeysApart ==
    [][\A p \in Procs :
         /\ (/\ pc[p] \in {"start", "waitget", "lastget"} /\ pc'[p] = "done"
             /\ res'[p].kind \in {"value", "unmarshal"})
            => ~IsLockRecord(ckey'[p])
         /\ (pc[p] = "setnx" /\ pc'[p] = "waitget")
            => ~IsEntry(LockKey(ckey[p]))
         /\ (pc[p] = "set" /\ store' # store)
            => ~IsLockRecord(ckey[p])]_vars

\* C13: remote variant: every store failure met during GetOrFetch makes the
\* call return a store error: a call whose ctx is not done never returns
\* the "fetch operation failed or cache not populated" error for a last
\* read that the store failed to answer
C13_StoreFailuresReported ==
    \A p \in Procs :
        (backend = "redis" /\ pc[p] = "done" /\ ~cancelled[p])
        => res[p] # Err("fetchfailed", 1)

C15_AttachedHonorsCtx ==
    \A p \in Procs :
        /\ (pc[p] = "attached" /\ cancelled[p]) => ENABLED MemJoin(p)
        /\ (pc[p] = "done" /\ att[p] # 0 /\ cancelled[p])
           => res[p].kind = "ctx"

\* less than its ttl has passed since the entry of k was last written
Fresh(k) ==
    /\ hist.wttl[k] > 0
    /\ hist.age[k] * ExtendInterval < hist.wttl[k]

\* the ttl of the entry last written for k has passed
Expired(k) ==
    /\ hist.wttl[k] > 0
    /\ hist.age[k] * ExtendInterval >= hist.wttl[k]

OpStep(kind) ==
    /\ op.pc = "idle" /\ op'.pc = "idle"
    /\ op' # op /\ op'.kind = kind

PrefixReturns ==
    /\ op'.pc = "idle" /\ op' # op
    /\ op'.kind = "DeleteByPrefix"

\* the store when the call that returns in this step began
StoreAtCall == IF op.pc = "idle" THEN store ELSE op.pre

\* C18: both variants: when DeleteByPrefix(p) returns (n, nil), no key that
\* started with p when the call began is in the store, the keys that do not
\* start with p are untouched, and n is the number of keys the call removed
C18_PrefixDeletesAndCounts ==
    [][(PrefixReturns /\ op'.res = Ok)
       => /\ \A k \in StoreKeys :
               (HasPrefix(k, op'.arg) /\ StoreAtCall[k] # Nil) => store'[k] = Nil
          /\ \A k \in StoreKeys :
               ~HasPrefix(k, op'.arg) => store'[k] = store[k]
          /\ op'.n = op'.removed]_vars

\* C19: both variants: when DeleteByPrefix returns a cancellation error
\* with count n, the call has removed exactly n keys (none when the ctx was
\* done at entry) and has left alone the keys it has not counted
C19_PartialCountOnCancel ==
    [][(PrefixReturns /\ op'.res.kind = "ctx")
       => /\ op'.n = op'.removed
          /\ op.pc = "idle" => (op'.n = 0 /\ store' = store)
          /\ \A k \in op.snap : store'[k] = store[k]]_vars

\* C20: both variants: an ItemCount that returns success returns the number
\* of store keys that hold a cache entry: lock records and fetches in flight
\* are not counted, and the count is 0 when nothing is stored
C20_ItemCountCountsEntries ==
    [][(OpStep("ItemCount") /\ op'.res = Ok)
       => op'.n = Cardinality({k \in StoreKeys : IsEntry(k)})]_vars

\* C21: local variant: Delete, Clear, ItemCount and DeleteByPrefix called
\* with a ctx that is already done return the ctx error, with count 0, and
\* leave the store as it was
C21_CancelledCallChangesNothing ==
    [][(backend = "memory" /\ op.pc = "idle" /\ op' # op /\ op'.ctxDone)
       => /\ op'.pc = "idle"
          /\ op'.res = Err("ctx", 0)
          /\ op'.n = 0
          /\ store' = store]_vars

\* a call with a done ctx has returned over a store that holds an entry
C21_Witness ==
    /\ backend = "memory"
    /\ op.pc = "idle" /\ op.ctxDone
    /\ op.kind \in {"Clear", "DeleteByPrefix"}
    /\ op.res = Err("ctx", 0)
    /\ \E k \in StoreKeys : store[k] # Nil

\* the calls whose function runs inside group.Do
InFlight == {p \in Procs : pc[p] \in {"dcheck", "mfetch", "mset", "finish"}}

\* C35: local variant: at every moment at most one invocation of fetchFn
\* is in flight per key; the registration of a call is gone once the call
\* is done, with a value or an error; a caller attaches only to a call
\* that is in flight, and a caller that finds none registers its own call
C35_OneFlightPerKey ==
    [][backend = "memory" =>
         /\ \A k \in AllKeys :
               /\ Cardinality({p \in Procs : ckey'[p] = k /\ pc'[p] = "mfetch"}) <= 1
               /\ group'[k] # 0 => group'[k] \in InFlight' /\ ckey'[group'[k]] = k
         /\ \A p \in Procs :
               /\ pc'[p] = "done" => group'[ckey'[p]] # p
               /\ (pc[p] = "do" /\ pc'[p] = "attached") => att'[p] \in InFlight
               /\ (pc[p] = "do" /\ pc'[p] = "dcheck") =>
                      \A q \in InFlight : ckey[q] # ckey[p]]_vars

\* after a call whose fetchFn failed is done, a miss has started the second
\* invocation for the key, and another caller has attached to that one
C35_Witness ==
    /\ backend = "memory"
    /\ \E p, q, r \in Procs :
         /\ pc[p] = "done" /\ fok[p] = "err" /\ inv[p] = 1
         /\ pc[q] = "mfetch" /\ inv[q] = 2 /\ group[ckey[q]] = q
         /\ ckey[q] = ckey[p]
         /\ pc[r] = "attached" /\ att[r] = q

\* C37: both variants: after Delete(K) has returned successfully, K has no
\* entry written by a GetOrFetch call whose fetchFn was already invoked
\* when the Delete ran: only a fetch that started after the Delete
\* populates K
C37_DeleteBeatsFetchInFlight ==
    (op.kind = "Delete" /\ op.pc = "idle" /\ op.res = Ok) =>
       (store[op.arg] # Nil => store[op.arg].by \notin op.flying)

\* min(10 * 2^(i-1), 500) ms; from the 7th interval on 10 * 2^(i-1) is
\* above 500
IthInterval(i) ==
    IF i >= 7 \/ 10 * 2^(i - 1) > 500 THEN 500 ELSE 10 * 2^(i - 1)

\* C36: remote variant: the i-th time.Sleep of the wait loop lasts
\* min(10 * 2^(i-1), 500) ms: 10, 20, 40, 80, 160, 320, 500, 500, ...,
\* never below 10 ms and never above 500 ms
C36_BackoffSequence ==
    wait.pc = "sleep" =>
       /\ wait.backoff = IthInterval(wait.slept + 1)
       /\ wait.backoff >= 10 /\ wait.backoff <= 500

\* the loop is about to sleep its 9th interval, 500 ms like the two before
C36_Witness ==
    /\ wait.pc = "sleep"
    /\ wait.slept = 8
    /\ wait.backoff = 500
    /\ wait.now >= 10 + 20 + 40 + 80 + 160 + 320 + 500 + 500

\* C33: remote variant: while the winner's fetchFn runs and every tick of
\* its extendLock is followed by the extension before the next interval
\* ends (the store executes it), the lock record holds the winner's token
\* with at least two intervals of life left, however many intervals the
\* fetch lasts, so no SetNX of another call on the key succeeds
C33_ExtendedLockStaysHeld ==
    \A p \in Procs :
       (backend = "redis" /\ pc[p] = "fetch" /\ ~hist.missed[p]) =>
          /\ HoldsLock(p)
          /\ store[LockKey(ckey[p])].exp >= LockTTL - 2 * ExtendInterval

\* a fetch that has lasted longer than the lock TTL, every extension made
C33_Witness ==
    \E p \in Procs :
       /\ backend = "redis" /\ pc[p] = "fetch" /\ ~hist.missed[p]
       /\ hist.ticks[p] = MaxFetchTicks
       /\ hist.ticks[p] * ExtendInterval > LockTTL
       /\ hist.ext[p] = "ok"
       /\ \E q \in Procs \ {p} : pc[q] = "waitget"

\* C34: remote variant: once an extension attempt of a call has found that
\* the lock record does not hold the call's token, extendLock makes no
\* further attempt while the fetchFn runs
C34_StaleExtensionStops ==
    \A p \in Procs :
       (backend = "redis" /\ pc[p] = "fetch" /\ hist.ext[p] = "stale")
          => ~ ENABLED ExtendLock(p)

-----------------------------------------------------------------------------
(* IdGenerator: goroutines call Id on generators made with NewIdGenerator.  *)
(* atomic.Uint32.Add is one step; the return of Id is another.              *)

\* the cacher package while the other packages run: nothing stored, no call
CacherIdle ==
    ColdStart /\ backend = "redis" /\ ~timed /\ ~hist.track /\ op = OpOff

\* start values: 0, one below a carry into the high half, the last two
\* values of uint32
StartValues == {U32(0), <<0, Word - 1>>, <<Word - 1, Word - 2>>, MaxUint32}

IdInit ==
    /\ CacherIdle
    /\ \E s \in [Gens -> StartValues] : gen = Generators(s)
    /\ SetsIdle /\ SrvIdle /\ CliIdle /\ DfwIdle

\* mutant: the addition loses the carry into the high half
AddNoCarry(x, delta) == <<x[1], (x[2] + delta) % Word>>

\* atomic.Uint32.Add(delta) for a small delta: the sum modulo 2^32
Add(x, delta) ==
    LET t == x[2] + delta IN <<(x[1] + t \div Word) % Word, t % Word>>

\* Id, l.id.Add(1): the counter becomes the sum, which is the call's result
IdAdd(p, g) ==
    /\ gen.reg[p] = <<>>
    /\ Len(gen.got[p]) < MaxIdCalls
    /\ LET v == Add(gen.obj[g].id, 1) IN
         gen' = [gen EXCEPT !.obj[g].id = v,
                            !.reg[p] = <<g, v>>,
                            !.out[g] = Append(@, v)]
    /\ UNCHANGED <<Cacher, sets, srv, cli, dfw>>

\* mutant: Id returns the counter as it is when the call returns
IdReturnLoads(p) ==
    /\ gen.reg[p] # <<>>
    /\ gen' = [gen EXCEPT
                 !.got[p] = Append(@, <<gen.reg[p][1],
                                        gen.obj[gen.reg[p][1]].id>>),
                 !.reg[p] = <<>>]
    /\ UNCHANGED <<Cacher, sets, srv, cli, dfw>>

\* Id returns the result of the addition
IdReturn(p) ==
    /\ gen.reg[p] # <<>>
    /\ gen' = [gen EXCEPT !.got[p] = Append(@, gen.reg[p]),
                          !.reg[p] = <<>>]
    /\ UNCHANGED <<Cacher, sets, srv, cli, dfw>>

IdNext == \E p \in IdCallers : (\E g \in Gens : IdAdd(p, g)) \/ IdReturn(p)

SpecId == IdInit /\ [][IdNext]_vars

\* (s + k) mod 2^32 for a uint32 s and a small k
SumMod32(s, k) ==
    LET lo == s[2] + k
        hi == IF lo >= Word THEN s[1] + 1 ELSE s[1] IN
    <<IF hi = Word THEN 0 ELSE hi, IF lo >= Word THEN lo - Word ELSE lo>>

\* C22: the k-th Id call on a generator made with NewIdGenerator(s) returns
\* (s + k) mod 2^32, whatever calls the other generator has served: the
\* first returns s + 1, and 0 when s is the largest uint32
C22_KthIdIsStartPlusK ==
    \A g \in Gens :
      /\ \A k \in 1..Len(gen.out[g]) :
           gen.out[g][k] = SumMod32(gen.obj[g].start, k)
      /\ (Len(gen.out[g]) > 0 /\ gen.obj[g].start = MaxUint32)
            => gen.out[g][1] = U32(0)

\* a generator started at the largest uint32 has wrapped to 0 and gone on,
\* and the other generator has carried into the high half
C22_Witness ==
    \E g, h \in Gens :
      /\ gen.obj[g].start = MaxUint32 /\ Len(gen.out[g]) >= 2
      /\ gen.obj[h].start = <<0, Word - 1>> /\ Len(gen.out[h]) >= 1

\* the Id calls on generator g that have returned: <<goroutine, call>>
Returned(g) ==
    {c \in IdCallers \X (1..MaxIdCalls) :
        c[2] <= Len(gen.got[c[1]]) /\ gen.got[c[1]][c[2]][1] = g}

\* the value call c returned
ValueOf(c) == gen.got[c[1]][c[2]][2]

\* no Id call is between its addition and its return
IdQuiet == \A p \in IdCallers : gen.reg[p] = <<>>

\* C23: for any interleaving of n concurrent Id calls on one generator
\* started at s, the n values returned are pairwise distinct and are
\* exactly s+1, ..., s+n
C23_ConcurrentIdsDistinct ==
    \A g \in Gens :
      /\ \A c, d \in Returned(g) : c # d => ValueOf(c) # ValueOf(d)
      /\ IdQuiet => {ValueOf(c) : c \in Returned(g)}
                      = {SumMod32(gen.obj[g].start, i) :
                            i \in 1..Cardinality(Returned(g))}

\* two goroutines have each had two calls on the same generator return, the
\* second goroutine's first addition falling between the first's two
C23_Witness ==
    \E g \in Gens :
      /\ IdQuiet
      /\ \A p \in IdCallers :
           Len(gen.got[p]) = 2 /\ \A i \in 1..2 : gen.got[p][i][1] = g
      /\ \E p, q \in IdCallers :
           /\ gen.got[p][1][2] = gen.out[g][1]
           /\ gen.got[q][1][2] = gen.out[g][2]
           /\ gen.got[p][2][2] = gen.out[g][3]

-----------------------------------------------------------------------------
(* SafeSet: goroutines call the methods of sets that share elements. Every  *)
(* Lock, RLock, critical section and unlocked map access is one step. The   *)
(* lock is Go's sync.RWMutex: a writer that has called Lock keeps new       *)
(* readers out while it waits for the readers inside to leave.              *)

\* the sets as earlier, completed Add calls have filled them
SetInit ==
    /\ CacherIdle
    /\ GenIdle
    /\ \E m \in [Sets -> SUBSET Elems] : sets = SafeSets(m, MaxSetCalls)
    /\ SrvIdle /\ CliIdle /\ DfwIdle

SetFrame == <<Cacher, gen, srv, cli, dfw>>

\* goroutine p is at l and the process has not died
At(p, l) == ~sets.fatal /\ sets.g[p].pc = l

Writers == {"Add", "Remove", "Reset"}
Readers == {"Contains", "Size", "Range", "Union"}

\* a goroutine calls a method of set x with the arguments v and other
SetCall(p) ==
    /\ At(p, "idle")
    /\ sets.g[p].left > 0
    /\ \E kind \in Writers \cup Readers \cup {"Intersection"},
          x, y \in Sets, v \in Elems :
         /\ kind \in {"Add", "Remove", "Contains"} \/ v = 1
         /\ kind \in {"Intersection", "Union"} \/ y = x
         /\ sets' = [sets EXCEPT !.g[p] =
              [NoCall(sets.g[p].left - 1) EXCEPT
                 !.kind = kind, !.s = x, !.other = y, !.v = v,
                 !.pc = IF kind \in Writers THEN "lock"
                        ELSE IF kind \in Readers THEN "rlock"
                        ELSE "range"]]
    /\ UNCHANGED SetFrame

\* s.Lock(), first half: take the mutex of the writers and announce the
\* writer, which keeps new readers out
Lock(p) ==
    /\ At(p, "lock")
    /\ sets.wmu[sets.g[p].s] = 0
    /\ sets' = [sets EXCEPT !.wmu[sets.g[p].s] = p, !.g[p].pc = "drain"]
    /\ UNCHANGED SetFrame

\* s.Lock(), second half: the readers inside have left
Locked(p) ==
    /\ At(p, "drain")
    /\ \A q \in SetCallers : sets.rd[sets.g[p].s][q] = 0
    /\ sets' = [sets EXCEPT !.held[sets.g[p].s] = TRUE, !.g[p].pc = "write"]
    /\ UNCHANGED SetFrame

\* the method returns ret; a deferred Unlock releases set x
Unlocked(S, p, x, ret) ==
    [S EXCEPT !.wmu[x] = 0, !.held[x] = FALSE,
              !.g[p].pc = "idle", !.g[p].ret = ret]

\* Add: s.m[value] = struct{}{}; defer s.Unlock()
SetAdd(p) ==
    /\ At(p, "write") /\ sets.g[p].kind = "Add"
    /\ LET x == sets.g[p].s IN
         sets' = Unlocked([sets EXCEPT !.m[x] = @ \cup {sets.g[p].v}],
                          p, x, <<>>)
    /\ UNCHANGED SetFrame

\* Remove: delete(s.m, value); defer s.Unlock()
SetRemove(p) ==
    /\ At(p, "write") /\ sets.g[p].kind = "Remove"
    /\ LET x == sets.g[p].s IN
         sets' = Unlocked([sets EXCEPT !.m[x] = @ \ {sets.g[p].v}],
                          p, x, <<>>)
    /\ UNCHANGED SetFrame

\* Reset: s.m = make(map[T]struct{}); defer s.Unlock(). A range loop that
\* runs over the old map goes on over that map, which nobody writes any more
SetReset(p) ==
    /\ At(p, "write") /\ sets.g[p].kind = "Reset"
    /\ LET x == sets.g[p].s
           S == [sets EXCEPT
                   !.m[x] = {},
                   !.g = [q \in SetCallers |->
                            IF /\ sets.g[q].pc = "iter"
                               /\ sets.g[q].s = x /\ ~sets.g[q].frozen
                            THEN [sets.g[q] EXCEPT !.frozen = TRUE,
                                                   !.base = sets.m[x]]
                            ELSE sets.g[q]]] IN
         sets' = Unlocked(S, p, x, <<>>)
    /\ UNCHANGED SetFrame

\* s.RLock(): no writer has called Lock
RLock(p) ==
    /\ At(p, "rlock")
    /\ LET x == sets.g[p].s IN
         /\ sets.wmu[x] = 0
         /\ sets' = [sets EXCEPT
                       !.rd[x][p] = @ + 1,
                       !.g[p].pc = IF sets.g[p].kind = "Union"
                                   THEN "rlock2" ELSE "read"]
    /\ UNCHANGED SetFrame

\* the method returns ret; a deferred RUnlock releases set x
RUnlocked(S, p, x, ret) ==
    [S EXCEPT !.rd[x][p] = @ - 1, !.g[p].pc = "idle", !.g[p].ret = ret]

\* Contains: _, ok := s.m[value]; defer s.RUnlock()
SetContains(p) ==
    /\ At(p, "read") /\ sets.g[p].kind = "Contains"
    /\ LET x == sets.g[p].s IN
         sets' = RUnlocked(sets, p, x, <<sets.g[p].v \in sets.m[x]>>)
    /\ UNCHANGED SetFrame

\* Size: len(s.m); defer s.RUnlock()
SetSize(p) ==
    /\ At(p, "read") /\ sets.g[p].kind = "Size"
    /\ LET x == sets.g[p].s IN
         sets' = RUnlocked(sets, p, x, <<Cardinality(sets.m[x])>>)
    /\ UNCHANGED SetFrame

\* Range: for k := range s.m { if !f(k) { break } }; defer s.RUnlock(). f
\* has seen the elements in seen when the loop ends
SetRange(p) ==
    /\ At(p, "read") /\ sets.g[p].kind = "Range"
    /\ LET x == sets.g[p].s IN
         \E seen \in SUBSET sets.m[x] :
            sets' = RUnlocked(sets, p, x, <<seen>>)
    /\ UNCHANGED SetFrame

\* Union: other.RLock()
UnionRLockOther(p) ==
    /\ At(p, "rlock2")
    /\ LET y == sets.g[p].other IN
         /\ sets.wmu[y] = 0
         /\ sets' = [sets EXCEPT !.rd[y][p] = @ + 1, !.g[p].pc = "read"]
    /\ UNCHANGED SetFrame

\* Union: the two loops into result; defer other.RUnlock(), s.RUnlock()
SetUnion(p) ==
    /\ At(p, "read") /\ sets.g[p].kind = "Union"
    /\ LET x == sets.g[p].s
           y == sets.g[p].other
           S == [sets EXCEPT !.rd[y][p] = @ - 1] IN
         sets' = RUnlocked(S, p, x, <<sets.m[x] \cup sets.m[y]>>)
    /\ UNCHANGED SetFrame

\* goroutine q is inside the critical section of a writer of set x
Writing(q, x) == sets.g[q].pc = "write" /\ sets.g[q].s = x

\* Intersection: result := NewSafeSet(); the range loop over s.m begins. No
\* lock is taken
IntersectionRange(p) ==
    /\ At(p, "range")
    /\ sets' = [sets EXCEPT !.g[p].pc = "iter",
                            !.g[p].base = sets.m[sets.g[p].s]]
    /\ UNCHANGED SetFrame

\* the map the range loop of p runs over
Ranged(p) == IF sets.g[p].frozen THEN sets.g[p].base ELSE sets.m[sets.g[p].s]

\* Intersection, one iteration: the next key k of the loop; if other.m
\* holds k, result.Add(k). A key added since the loop began may be left out.
\* When the loop has ended: return result. An iteration that runs while a
\* writer is in a map it reads either goes on or ends the process with the
\* runtime's fatal error "concurrent map read and map write"
IntersectionLoop(p) ==
    /\ At(p, "iter")
    /\ LET x == sets.g[p].s
           y == sets.g[p].other
           todo == Ranged(p) \ sets.g[p].seen
           raced == \E q \in SetCallers \ {p} :
                       Writing(q, y) \/ (Writing(q, x) /\ ~sets.g[p].frozen)
       IN
         \/ /\ raced
            /\ sets' = [sets EXCEPT !.fatal = TRUE]
         \/ \E k \in todo :
              sets' = [sets EXCEPT
                         !.g[p].seen = @ \cup {k},
                         !.g[p].result = IF k \in sets.m[y] THEN @ \cup {k}
                                         ELSE @]
         \/ /\ todo \cap sets.g[p].base = {}
            /\ sets' = [sets EXCEPT !.g[p].pc = "idle",
                                    !.g[p].ret = <<sets.g[p].result>>]
    /\ UNCHANGED SetFrame

SetNext ==
    \E p \in SetCallers :
       \/ SetCall(p) \/ Lock(p) \/ Locked(p)
       \/ SetAdd(p) \/ SetRemove(p) \/ SetReset(p)
       \/ RLock(p) \/ SetContains(p) \/ SetSize(p) \/ SetRange(p)
       \/ UnionRLockOther(p) \/ SetUnion(p)
       \/ IntersectionRange(p) \/ IntersectionLoop(p)

SpecSet == SetInit /\ [][SetNext]_vars

\* goroutine p is reading the map of set x
Reading(p, x) ==
    \/ sets.g[p].pc = "read"
         /\ (sets.g[p].s = x \/ (sets.g[p].kind = "Union" /\ sets.g[p].other = x))
    \/ sets.g[p].pc = "iter"
         /\ (sets.g[p].other = x \/ (sets.g[p].s = x /\ ~sets.g[p].frozen))

\* C24: SafeSet: every method reads or writes a set's map only while it
\* holds that set's lock, so in no state one goroutine reads the map of a
\* set while another goroutine writes it
C24_NoReadDuringWrite ==
    \A p, q \in SetCallers, x \in Sets :
       p # q => ~(Reading(p, x) /\ Writing(q, x))

\* goroutine p is blocked in a lock call that only goroutine q can end: p
\* is in Lock or RLock of a set whose writer q has called Lock, or p waits
\* in Lock for the RLock that q holds
WaitsFor(p, q) ==
    \/ /\ At(p, "lock") \/ At(p, "rlock")
       /\ sets.wmu[sets.g[p].s] = q
    \/ /\ At(p, "rlock2")
       /\ sets.wmu[sets.g[p].other] = q
    \/ /\ At(p, "drain")
       /\ sets.rd[sets.g[p].s][q] > 0

\* C38: SafeSet: every Union call returns under every interleaving with
\* Add, Remove, Reset and Union calls on the same sets: no Union call is
\* ever among goroutines each of which is blocked in a lock call that only
\* another of them can end
C38_UnionReturns ==
    ~ \E D \in SUBSET SetCallers :
         /\ \E p \in D : sets.g[p].kind = "Union"
         /\ \A p \in D : \E q \in D : WaitsFor(p, q)

-----------------------------------------------------------------------------
(* TCPServer: goroutines call Start and Stop, every successful Start runs   *)
(* an AcceptLoop goroutine, clients connect. Every load or store of         *)
(* Running, every call of the net package and every SafeMap call is one     *)
(* step.                                                                    *)

SrvInit ==
    /\ CacherIdle
    /\ GenIdle /\ SetsIdle
    /\ \E eph \in BOOLEAN : srv = NewServer(eph, MaxSrvCalls)
    /\ CliIdle /\ DfwIdle

SrvFrame == <<Cacher, gen, sets, cli, dfw>>

\* a goroutine calls Start or Stop
SrvCall(p) ==
    /\ srv.c[p].pc = "idle"
    /\ srv.c[p].left > 0
    /\ \E kind \in {"Start", "Stop"} :
         srv' = [srv EXCEPT
                   !.c[p] = [NoSrvCall(srv.c[p].left - 1) EXCEPT
                               !.kind = kind, !.pc = "check"],
                   !.noStop = @ /\ kind = "Start"]
    /\ UNCHANGED SrvFrame

\* the call of p returns; r: the result of a Start
SrvReturn(S, p, r) ==
    [S EXCEPT !.c[p].pc = "idle",
              !.rets = IF r = "none" THEN @ ELSE [@ EXCEPT ![r] = @ + 1]]

\* Start: if s.Running.Load() { return already running }
StartCheck(p) ==
    /\ srv.c[p].pc = "check" /\ srv.c[p].kind = "Start"
    /\ srv' = IF srv.running THEN SrvReturn(srv, p, "running")
              ELSE [srv EXCEPT !.c[p].pc = "listen"]
    /\ UNCHANGED SrvFrame

\* Start: ln, err := net.Listen("tcp", s.Addr); a fixed port that a bound
\* listener holds is in use
StartListen(p) ==
    /\ srv.c[p].pc = "listen"
    /\ srv' = IF ~srv.eph /\ srv.open # {}
              THEN SrvReturn(srv, p, "failed")
              ELSE [srv EXCEPT !.lns = @ + 1,
                               !.open = @ \cup {srv.lns + 1},
                               !.c[p].pc = "store",
                               !.c[p].ln = srv.lns + 1]
    /\ UNCHANGED SrvFrame

\* Start: s.Listener = ln; s.Running.Store(true); go s.AcceptLoop();
\* return nil
StartStore(p) ==
    /\ srv.c[p].pc = "store"
    /\ srv' = SrvReturn([srv EXCEPT
                           !.listener = srv.c[p].ln,
                           !.running = TRUE,
                           !.loops = Append(@, [pc |-> "cond", ln |-> 0,
                                                conn |-> 0]),
                           !.stopped = FALSE], p, "nil")
    /\ UNCHANGED SrvFrame

\* Stop: if !s.Running.Load() { return }
StopCheck(p) ==
    /\ srv.c[p].pc = "check" /\ srv.c[p].kind = "Stop"
    /\ srv' = IF ~srv.running THEN SrvReturn(srv, p, "none")
              ELSE [srv EXCEPT !.c[p].pc = "close"]
    /\ UNCHANGED SrvFrame

\* Stop: s.Running.Store(false); s.Listener.Close()
StopClose(p) ==
    /\ srv.c[p].pc = "close"
    /\ srv' = [srv EXCEPT !.running = FALSE,
                          !.open = @ \ {srv.listener},
                          !.c[p].pc = "range"]
    /\ UNCHANGED SrvFrame

\* Stop: s.Sessions.Range closes every session of the map; return
StopRange(p) ==
    /\ srv.c[p].pc = "range"
    /\ srv' = SrvReturn([srv EXCEPT
                           !.sess = [c \in Conns |->
                                       IF srv.sess[c].in
                                       THEN [srv.sess[c] EXCEPT !.closed = TRUE]
                                       ELSE srv.sess[c]],
                           !.stopped = TRUE], p, "none")
    /\ UNCHANGED SrvFrame

Loops == 1..(NumSrvCallers * MaxSrvCalls)

\* AcceptLoop: for s.Running.Load() { ... s.Listener.Accept(): the loop
\* ends, or it waits on the listener that s.Listener names now
LoopCond(i) ==
    /\ i \in DOMAIN srv.loops
    /\ srv.loops[i].pc = "cond"
    /\ srv' = IF srv.running
              THEN [srv EXCEPT !.loops[i].pc = "accept",
                               !.loops[i].ln = srv.listener]
              ELSE [srv EXCEPT !.loops[i].pc = "exited"]
    /\ UNCHANGED SrvFrame

\* AcceptLoop: Accept returns a connection of a client, or, the listener
\* closed, an error: if !s.Running.Load() { return }, else continue
LoopAccept(i) ==
    /\ i \in DOMAIN srv.loops
    /\ srv.loops[i].pc = "accept"
    /\ IF srv.loops[i].ln \in srv.open
       THEN /\ srv.conns < MaxConns
            /\ srv' = [srv EXCEPT !.conns = @ + 1,
                                  !.loops[i].pc = "add",
                                  !.loops[i].conn = srv.conns + 1]
       ELSE srv' = [srv EXCEPT !.loops[i].pc =
                                  IF srv.running THEN "cond" ELSE "exited"]
    /\ UNCHANGED SrvFrame

\* AcceptLoop: id := s.IdGenerator.Id(); session := s.NewSession(id, conn);
\* s.AddSession(id, session); go session.Handle()
LoopAdd(i) ==
    /\ i \in DOMAIN srv.loops
    /\ srv.loops[i].pc = "add"
    /\ srv' = [srv EXCEPT
                 !.sess[srv.loops[i].conn] =
                     [in |-> TRUE, closed |-> FALSE, handled |-> TRUE,
                      late |-> srv.stopped],
                 !.loops[i].pc = "cond", !.loops[i].conn = 0]
    /\ UNCHANGED SrvFrame

SrvNext ==
    \/ \E p \in SrvCallers :
         \/ SrvCall(p) \/ StartCheck(p) \/ StartListen(p) \/ StartStore(p)
         \/ StopCheck(p) \/ StopClose(p) \/ StopRange(p)
    \/ \E i \in Loops : LoopCond(i) \/ LoopAccept(i) \/ LoopAdd(i)

SpecSrv == SrvInit /\ [][SrvNext]_vars

\* the accept loops that have not exited
ActiveLoops == {i \in DOMAIN srv.loops : srv.loops[i].pc # "exited"}

\* C25: TCPServer: at most one listener is bound at any time; as long as no
\* Stop is called, at most one accept loop runs, at most one Start returns
\* nil and every other Start returns the 'already running' error
C25_OneListenerOneLoop ==
    /\ Cardinality(srv.open) <= 1
    /\ srv.noStop => /\ Cardinality(ActiveLoops) <= 1
                     /\ srv.rets.nil <= 1
                     /\ srv.rets.failed = 0

\* C26: TCPServer: once Stop has returned and every accept loop has exited,
\* every session in the Sessions map has had Close called on it, and no
\* session's Handle was started after Stop returned
C26_StopClosesEverySession ==
    /\ (srv.stopped /\ ActiveLoops = {})
          => \A c \in Conns : srv.sess[c].in => srv.sess[c].closed
    /\ \A c \in Conns : ~srv.sess[c].late

-----------------------------------------------------------------------------
(* EventDrivenTCPClient: goroutines call Connect, Disconnect, Close, Send   *)
(* and GetState; every connection made runs a readLoop and, with            *)
(* AutoReconnect, a reconnectHandler; the network breaks connections. A     *)
(* section under c.mu that calls nothing that takes c.mu is one step, and   *)
(* so is every dial, read, write, channel operation and WaitGroup call. The *)
(* handlers of the events are user code and are left out.                   *)

CliInit ==
    /\ CacherIdle
    /\ GenIdle /\ SetsIdle /\ SrvIdle /\ DfwIdle
    /\ \E auto \in BOOLEAN : cli = NewEventDrivenTCPClient(auto, MaxCliCalls)

CliFrame == <<Cacher, gen, sets, srv, dfw>>

\* caller p can make a call: its c.mu.Lock() or RLock() succeeds
CanCall(p) ==
    /\ cli.t[p].role = "caller" /\ cli.t[p].pc = "idle"
    /\ cli.t[p].left > 0
    /\ cli.mu = 0

\* caller p begins a call
Begin(p, kind) ==
    [cli EXCEPT !.t[p].left = @ - 1, !.t[p].kind = kind,
                !.t[p].ret = "none", !.t[p].late = cli.closeDone,
                !.t[p].was = cli.state,
                !.onlyConnect = @ /\ kind = "Connect"]

\* the call of p returns r
CliReturn(S, p, r) ==
    [S EXCEPT !.t[p].pc = "idle", !.t[p].ret = r, !.t[p].conn = 0,
              !.t[p].target = "none", !.t[p].next = "none",
              !.t[p].err = FALSE]

\* goroutine t goes on to setState(target) and from there to next
SetStateThen(S, t, target, next) ==
    [S EXCEPT !.t[t].pc = "setstate", !.t[t].target = target,
              !.t[t].next = next]

\* go f(): the first goroutine that does not run starts at pc
Go(S, role, at) ==
    LET t == CHOOSE u \in Threads :
                /\ S.t[u].role = "free"
                /\ \A w \in Threads : S.t[w].role = "free" => u <= w
    IN [S EXCEPT !.t[t] = [NoThread EXCEPT !.role = role, !.pc = at]]

\* defer c.wg.Done(); the goroutine ends
Exit(S, t) == [S EXCEPT !.wg = @ - 1, !.t[t] = NoThread]

\* triggerReconnect: if !c.config.AutoReconnect || c.isClosed() { return };
\* select { case c.reconnectChan <- struct{}{}: default: }
TriggerReconnect(S) ==
    IF S.auto /\ ~S.closed THEN [S EXCEPT !.rchan = 1] ELSE S

\* connect() returns in goroutine t: to the caller of Connect, or into
\* reconnectHandler: c.reconnecting = false; if err != nil, a signal on
\* reconnectChan; back to the select
Resume(S, t, err) ==
    IF S.t[t].role = "caller"
    THEN CliReturn(S, t, IF err THEN "dialerr" ELSE "nil")
    ELSE [S EXCEPT !.reconnecting = FALSE,
                   !.rchan = IF err THEN 1 ELSE @,
                   !.t[t] = [NoThread EXCEPT !.role = "handler",
                                             !.pc = "select"]]

\* Connect: under c.mu: closed: 'client is closed'; Connected or
\* Connecting: 'already connected or connecting'; else c.connect(), which
\* begins with setState(Connecting)
Connect(p) ==
    /\ CanCall(p)
    /\ cli' = LET S == Begin(p, "Connect") IN
                IF cli.closed THEN CliReturn(S, p, "closed")
                ELSE IF cli.state \in {"Connected", "Connecting"}
                THEN CliReturn(S, p, "already")
                ELSE SetStateThen(S, p, "Connecting", "dial")
    /\ UNCHANGED CliFrame

\* setState: c.mu.Lock(); c.state = state; c.mu.Unlock(), and what follows
\* it up to the next step: after a failed dial emitError and return err;
\* at the end of Close return nil
SetState(t) ==
    /\ cli.t[t].pc = "setstate"
    /\ cli.mu = 0
    /\ cli' = LET S == [cli EXCEPT !.state = cli.t[t].target] IN
                IF cli.t[t].next = "fail" THEN Resume(S, t, TRUE)
                ELSE IF cli.t[t].next = "ret"
                THEN CliReturn([S EXCEPT !.closeDone = TRUE], t, "nil")
                ELSE [S EXCEPT !.t[t].pc = cli.t[t].next]
    /\ UNCHANGED CliFrame

\* connect: dialer.Dial fails, or makes a connection
Dial(t) ==
    /\ cli.t[t].pc = "dial"
    /\ \/ cli' = SetStateThen(cli, t, "Disconnected", "fail")
       \/ /\ cli.dials < MaxDials
          /\ cli' = [cli EXCEPT !.dials = @ + 1,
                                !.open = @ \cup {cli.dials + 1},
                                !.t[t].conn = cli.dials + 1,
                                !.t[t].pc = "setconn"]
    /\ UNCHANGED CliFrame

\* connect: c.mu.Lock(); c.conn = conn; c.mu.Unlock(); then
\* setState(Connected)
SetConn(t) ==
    /\ cli.t[t].pc = "setconn"
    /\ cli.mu = 0
    /\ cli' = SetStateThen([cli EXCEPT !.conn = cli.t[t].conn], t,
                           "Connected", "spawn")
    /\ UNCHANGED CliFrame

\* connect: c.wg.Add(1); go c.readLoop(); if c.config.AutoReconnect {
\* c.wg.Add(1); go c.reconnectHandler() }; return nil
Spawn(t) ==
    /\ cli.t[t].pc = "spawn"
    /\ cli.t[t].role = "handler" => cli.mu = 0
    /\ cli' = LET S1 == Go([cli EXCEPT !.wg = @ + 1], "read", "top")
                  S2 == IF cli.auto
                        THEN Go([S1 EXCEPT !.wg = @ + 1], "handler", "select")
                        ELSE S1
              IN Resume(S2, t, FALSE)
    /\ UNCHANGED CliFrame

\* Disconnect: c.mu.Lock(); defer c.mu.Unlock(); Disconnected or Closed:
\* return nil; else disconnect(): with a connection, c.conn.Close(), c.conn
\* = nil and setState(Disconnected), which the goroutine enters holding
\* c.mu; without one, return nil
Disconnect(p) ==
    /\ CanCall(p)
    /\ cli' = LET S == Begin(p, "Disconnect") IN
                IF cli.state \in {"Disconnected", "Closed"} \/ cli.conn = 0
                THEN CliReturn(S, p, "nil")
                ELSE SetStateThen([S EXCEPT !.open = @ \ {cli.conn},
                                            !.conn = 0, !.mu = p],
                                  p, "Disconnected", "unlock")
    /\ UNCHANGED CliFrame

\* Close: under c.mu: closed already: return nil; else c.closed = true,
\* the connection closed and c.conn = nil; then close(c.stopChan)
Close(p) ==
    /\ CanCall(p)
    /\ cli' = LET S == Begin(p, "Close") IN
                IF cli.closed THEN CliReturn(S, p, "nil")
                ELSE [S EXCEPT !.closed = TRUE, !.open = @ \ {cli.conn},
                               !.conn = 0, !.stop = TRUE,
                               !.t[p].pc = "wait"]
    /\ UNCHANGED CliFrame

\* Close: c.wg.Wait() returns; then setState(Closed) and return nil
CloseWait(p) ==
    /\ cli.t[p].pc = "wait"
    /\ cli.wg = 0
    /\ cli' = SetStateThen(cli, p, "Closed", "ret")
    /\ UNCHANGED CliFrame

\* Send: under c.mu.RLock(): conn and state; not Connected: 'not
\* connected'; conn nil: 'connection is nil'
Send(p) ==
    /\ CanCall(p)
    /\ cli' = LET S == Begin(p, "Send") IN
                IF cli.state # "Connected" THEN CliReturn(S, p, "notconnected")
                ELSE IF cli.conn = 0 THEN CliReturn(S, p, "nilconn")
                ELSE [S EXCEPT !.t[p].pc = "write", !.t[p].conn = cli.conn]
    /\ UNCHANGED CliFrame

\* Send: conn.Write; on an error emitError, triggerReconnect, return err
Write(p) ==
    /\ cli.t[p].pc = "write"
    /\ IF cli.t[p].conn \in cli.open \ cli.lost
       THEN cli' = CliReturn(cli, p, "nil")
       ELSE /\ cli.mu = 0
            /\ cli' = CliReturn(TriggerReconnect(cli), p, "writeerr")
    /\ UNCHANGED CliFrame

\* GetState: c.state under c.mu.RLock()
GetState(p) ==
    /\ CanCall(p)
    /\ cli' = CliReturn(Begin(p, "GetState"), p, cli.state)
    /\ UNCHANGED CliFrame

\* readLoop, top of the loop: conn and closed under c.mu.RLock(); if conn
\* == nil || closed { return }
ReadLoopTop(t) ==
    /\ cli.t[t].role = "read" /\ cli.t[t].pc = "top"
    /\ cli.mu = 0
    /\ cli' = IF cli.conn = 0 \/ cli.closed THEN Exit(cli, t)
              ELSE [cli EXCEPT !.t[t].pc = "read", !.t[t].conn = cli.conn]
    /\ UNCHANGED CliFrame

\* readLoop: conn.SetReadDeadline and conn.Read return: data, or an error
\* when the connection is closed or broken
Read(t) ==
    /\ cli.t[t].role = "read" /\ cli.t[t].pc = "read"
    /\ cli' = [cli EXCEPT !.t[t].pc = "after",
                          !.t[t].err = cli.t[t].conn \notin cli.open \ cli.lost]
    /\ UNCHANGED CliFrame

\* readLoop after the read: if c.isClosed() { return }; on an error
\* emitError, triggerReconnect and return; else emitDataReceived
ReadAfter(t) ==
    /\ cli.t[t].role = "read" /\ cli.t[t].pc = "after"
    /\ cli.mu = 0
    /\ cli' = IF cli.closed THEN Exit(cli, t)
              ELSE IF cli.t[t].err THEN Exit(TriggerReconnect(cli), t)
              ELSE [cli EXCEPT !.t[t].pc = "top"]
    /\ UNCHANGED CliFrame

\* reconnectHandler: select { case <-c.stopChan: return; case
\* <-c.reconnectChan: ... }
HandlerSelect(t) ==
    /\ cli.t[t].role = "handler" /\ cli.t[t].pc = "select"
    /\ \/ /\ cli.stop
          /\ cli' = Exit(cli, t)
       \/ /\ cli.rchan = 1
          /\ cli' = [cli EXCEPT !.rchan = 0, !.t[t].pc = "begin"]
    /\ UNCHANGED CliFrame

\* reconnectHandler: under c.mu: if c.reconnecting { continue };
\* c.reconnecting = true
HandlerBegin(t) ==
    /\ cli.t[t].role = "handler" /\ cli.t[t].pc = "begin"
    /\ cli.mu = 0
    /\ cli' = IF cli.reconnecting THEN [cli EXCEPT !.t[t].pc = "select"]
              ELSE [cli EXCEPT !.reconnecting = TRUE, !.t[t].pc = "disc"]
    /\ UNCHANGED CliFrame

\* reconnectHandler: c.mu.Lock(); c.disconnect(); c.mu.Unlock(): with a
\* connection, c.conn.Close(), c.conn = nil and setState(Disconnected),
\* which the goroutine enters holding c.mu; without one, on to
\* setState(Reconnecting)
HandlerDisconnect(t) ==
    /\ cli.t[t].role = "handler" /\ cli.t[t].pc = "disc"
    /\ cli.mu = 0
    /\ cli' = IF cli.conn # 0
              THEN SetStateThen([cli EXCEPT !.open = @ \ {cli.conn},
                                            !.conn = 0, !.mu = t],
                                t, "Disconnected", "unlock")
              ELSE SetStateThen(cli, t, "Reconnecting", "timer")
    /\ UNCHANGED CliFrame

\* reconnectHandler: select { case <-c.stopChan: c.reconnecting = false;
\* return; case <-time.After(c.config.ReconnectInterval): }; if
\* c.isClosed() { c.reconnecting = false; return }; c.connect()
HandlerTimer(t) ==
    /\ cli.t[t].role = "handler" /\ cli.t[t].pc = "timer"
    /\ cli.mu = 0
    /\ \/ /\ cli.stop \/ cli.closed
          /\ cli' = Exit([cli EXCEPT !.reconnecting = FALSE], t)
       \/ /\ ~cli.closed
          /\ cli' = SetStateThen(cli, t, "Connecting", "dial")
    /\ UNCHANGED CliFrame

\* the network breaks a connection
Lose(c) ==
    /\ c \in cli.open \ cli.lost
    /\ cli' = [cli EXCEPT !.lost = @ \cup {c}, !.onlyConnect = FALSE]
    /\ UNCHANGED CliFrame

CliNext ==
    \/ \E p \in CliCallers :
         \/ Connect(p) \/ Disconnect(p) \/ Close(p) \/ CloseWait(p)
         \/ Send(p) \/ Write(p) \/ GetState(p)
    \/ \E t \in Threads :
         \/ SetState(t) \/ Dial(t) \/ SetConn(t) \/ Spawn(t)
         \/ ReadLoopTop(t) \/ Read(t) \/ ReadAfter(t)
         \/ HandlerSelect(t) \/ HandlerBegin(t) \/ HandlerDisconnect(t)
         \/ HandlerTimer(t)
    \/ \E c \in 1..MaxDials : Lose(c)

SpecCli == CliInit /\ [][CliNext]_vars

\* the goroutines that run readLoop or reconnectHandler
Running(role) == {t \in Threads : cli.t[t].role = role}

\* the goroutines inside connect() between setState(Connecting) and the
\* start of the read loop
Connecting == {t \in Threads : cli.t[t].pc \in {"dial", "setconn", "spawn"}}

\* C27: EventDrivenTCPClient: for any interleaving of Connect calls (no
\* other call, no connection lost) at most one connection and one read
\* loop exist at a time and at most one call is dialing: a Connect that
\* runs while the client is Connecting or Connected does not dial
C27_OneConnectionOneReadLoop ==
    cli.onlyConnect =>
       /\ Cardinality(cli.open) <= 1
       /\ Cardinality(Running("read")) <= 1
       /\ Cardinality(Connecting) <= 1

\* C28: EventDrivenTCPClient: once the Close call that closed the client
\* has returned, the state is Closed for good; a Connect called after that
\* returns 'client is closed', and every Close that returns returns nil
C28_ClosedIsTerminal ==
    /\ cli.closeDone => cli.state = "Closed"
    /\ \A p \in CliCallers :
         (cli.t[p].pc = "idle" /\ cli.t[p].ret # "none") =>
            /\ (cli.t[p].kind = "Connect" /\ cli.t[p].late)
                  => cli.t[p].ret = "closed"
            /\ cli.t[p].kind = "Close" => cli.t[p].ret = "nil"

\* C29: EventDrivenTCPClient: after Close has returned the client holds no
\* open connection and no readLoop or reconnectHandler goroutine runs
C29_CloseLeavesNothingRunning ==
    cli.closeDone =>
       /\ cli.conn = 0 /\ cli.open = {}
       /\ Running("read") = {} /\ Running("handler") = {}

\* C30: EventDrivenTCPClient: a Disconnect call on a connected client
\* returns, the state being Disconnected: the call that has closed the
\* connection can make its setState(Disconnected), after which no
\* goroutine is connecting
C30_DisconnectReturns ==
    \A p \in CliCallers :
       (/\ cli.t[p].kind = "Disconnect" /\ cli.t[p].was = "Connected"
        /\ cli.t[p].pc = "setstate")
          => /\ ENABLED SetState(p)
             /\ Connecting = {}

\* C31: EventDrivenTCPClient with AutoReconnect: after a connection is
\* lost and while Close is not called, the reconnect handler that took the
\* reconnect signal goes on through Reconnecting to a new dial: whenever
\* it is at a setState it can make it, so it is never blocked for good
\* before the client is Connected again
C31_ReconnectProceeds ==
    \A t \in Threads :
       (/\ cli.auto /\ ~cli.closed
        /\ cli.t[t].role = "handler" /\ cli.t[t].pc = "setstate")
          => ENABLED SetState(t)

\* C39: EventDrivenTCPClient with AutoReconnect: at most one
\* reconnectHandler goroutine exists per client at any time
C39_OneReconnectHandler ==
    cli.auto => Cardinality(Running("handler")) <= 1

-----------------------------------------------------------------------------
(* DailyFileWriter: goroutines call Write, ForceRotate and Close while      *)
(* autoRotate runs its hourly check and the date changes. A section under   *)
(* w.mu is one step, and so is every atomic load or swap of w.closed,       *)
(* w.cancel() and the return of w.wg.Wait().                                *)

DfwInit ==
    /\ CacherIdle
    /\ GenIdle /\ SetsIdle /\ SrvIdle /\ CliIdle
    /\ dfw = NewDailyFileWriter(MaxDfwCalls)

DfwFrame == <<Cacher, gen, sets, srv, cli>>

\* caller p begins a call of kind
DfwBegin(p, kind) ==
    [dfw EXCEPT !.t[p] = [NoDfwCall(dfw.t[p].left - 1) EXCEPT
                            !.kind = kind, !.late = dfw.closeDone]]

DfwCanCall(p) == dfw.t[p].pc = "idle" /\ dfw.t[p].left > 0

\* the call of p returns r
DfwReturn(S, p, r) ==
    [S EXCEPT !.t[p].pc = "idle", !.t[p].ret = r, !.t[p].cur = 0,
              !.anyClose = @ \/ S.t[p].kind = "Close"]

\* needsRotation: w.file == nil, or the date is not w.currDate
NeedsRotation(S) == S.file = 0 \/ S.day # S.currDate

\* mutant: rotateInternal does not look at w.closed
RotateInternalNoCheck(S, ok) ==
    IF S.day = S.currDate /\ S.file # 0 /\ S.recent
    THEN [S |-> S, err |-> "nil"]
    ELSE LET C == [S EXCEPT !.open = @ \ {S.file}, !.file = 0] IN
         IF ok
         THEN [S |-> [C EXCEPT !.opens = @ + 1, !.file = S.opens + 1,
                               !.open = @ \cup {S.opens + 1},
                               !.currDate = S.day, !.recent = TRUE],
               err |-> "nil"]
         ELSE [S |-> C, err |-> "open"]

\* rotateInternal, called with w.mu held: closed: 'writer is closed'; same
\* date, a file and a rotation less than a minute ago: nothing; else the
\* file is closed, w.file = nil, and os.OpenFile opens the file of the
\* date (ok) or fails
RotateInternal(S, ok) ==
    IF S.closed = 1 THEN [S |-> S, err |-> "closed"]
    ELSE IF S.day = S.currDate /\ S.file # 0 /\ S.recent
    THEN [S |-> S, err |-> "nil"]
    ELSE LET C == [S EXCEPT !.open = @ \ {S.file}, !.file = 0] IN
         IF ok
         THEN [S |-> [C EXCEPT !.opens = @ + 1, !.file = S.opens + 1,
                               !.open = @ \cup {S.opens + 1},
                               !.currDate = S.day, !.recent = TRUE],
               err |-> "nil"]
         ELSE [S |-> C, err |-> "open"]

\* the outcomes of os.OpenFile that are tried: it fails once MaxOpens files
\* have been opened
OpenOutcomes(S) == IF S.opens < MaxOpens THEN BOOLEAN ELSE {FALSE}

\* Write: if atomic.LoadInt32(&w.closed) == 1: 'writer is closed'
WriteLoad(p) ==
    /\ DfwCanCall(p)
    /\ dfw' = LET S == DfwBegin(p, "Write") IN
                IF dfw.closed = 1 THEN DfwReturn(S, p, "closed")
                ELSE [S EXCEPT !.t[p].pc = "rlock"]
    /\ UNCHANGED DfwFrame

\* Write: under w.mu.RLock(): needsRotation := w.needsRotation();
\* currentFile := w.file
WriteRLock(p) ==
    /\ dfw.t[p].pc = "rlock"
    /\ dfw' = [dfw EXCEPT !.t[p].cur = dfw.file,
                          !.t[p].pc = IF NeedsRotation(dfw) THEN "rotate"
                                      ELSE "final"]
    /\ UNCHANGED DfwFrame

\* Write: under w.mu.Lock(): if w.needsRotation() { rotateInternal(); on
\* an error 'rotation failed' }; currentFile = w.file
WriteRotate(p) ==
    /\ dfw.t[p].pc = "rotate"
    /\ \E ok \in OpenOutcomes(dfw) :
         LET R == IF NeedsRotation(dfw) THEN RotateInternal(dfw, ok)
                  ELSE [S |-> dfw, err |-> "nil"] IN
         dfw' = IF R.err # "nil" THEN DfwReturn(R.S, p, "rotfail")
                ELSE [R.S EXCEPT !.t[p].cur = R.S.file, !.t[p].pc = "final"]
    /\ UNCHANGED DfwFrame

\* Write: under w.mu.RLock(): w.file == nil: 'log file is not open'; if
\* w.file != currentFile { currentFile = w.file }; currentFile.Write(p)
WriteFinal(p) ==
    /\ dfw.t[p].pc = "final"
    /\ dfw' = IF dfw.file = 0 THEN DfwReturn(dfw, p, "notopen")
              ELSE DfwReturn([dfw EXCEPT !.bad = @ \/ dfw.file \notin dfw.open],
                             p, "nil")
    /\ UNCHANGED DfwFrame

\* ForceRotate: rotate(): w.mu.Lock(); defer w.mu.Unlock(); rotateInternal()
ForceRotate(p) ==
    /\ DfwCanCall(p)
    /\ \E ok \in OpenOutcomes(dfw) :
         LET R == RotateInternal(DfwBegin(p, "ForceRotate"), ok) IN
         dfw' = DfwReturn(R.S, p, R.err)
    /\ UNCHANGED DfwFrame

\* Close: if !atomic.CompareAndSwapInt32(&w.closed, 0, 1) { return nil }
CloseSwap(p) ==
    /\ DfwCanCall(p)
    /\ dfw' = LET S == DfwBegin(p, "Close") IN
                IF dfw.closed = 1 THEN DfwReturn(S, p, "nil")
                ELSE [S EXCEPT !.closed = 1, !.t[p].pc = "cancel"]
    /\ UNCHANGED DfwFrame

\* Close: w.cancel()
CloseCancel(p) ==
    /\ dfw.t[p].pc = "cancel"
    /\ dfw' = [dfw EXCEPT !.ctxDone = TRUE, !.t[p].pc = "wait"]
    /\ UNCHANGED DfwFrame

\* Close: w.wg.Wait() returns
CloseWaited(p) ==
    /\ dfw.t[p].pc = "wait"
    /\ dfw.wg = 0
    /\ dfw' = [dfw EXCEPT !.t[p].pc = "lock"]
    /\ UNCHANGED DfwFrame

\* Close: under w.mu.Lock(): if w.file != nil { err := w.file.Close();
\* w.file = nil; return err }; return nil
CloseFile(p) ==
    /\ dfw.t[p].pc = "lock"
    /\ \E err \in {"nil", "closeerr"} :
         /\ dfw.file = 0 => err = "nil"
         /\ dfw' = DfwReturn([dfw EXCEPT !.open = @ \ {dfw.file}, !.file = 0,
                                         !.closeDone = TRUE], p, err)
    /\ UNCHANGED DfwFrame

\* autoRotate: select { case <-w.ctx.Done(): return; case <-ticker.C: };
\* defer w.wg.Done()
RotSelect ==
    /\ dfw.rot = "select"
    /\ \/ /\ dfw.ctxDone
          /\ dfw' = [dfw EXCEPT !.rot = "gone", !.wg = 0]
       \/ dfw' = [dfw EXCEPT !.rot = "check"]
    /\ UNCHANGED DfwFrame

\* autoRotate after a tick: if atomic.LoadInt32(&w.closed) == 1 { return }
RotCheck ==
    /\ dfw.rot = "check"
    /\ dfw' = IF dfw.closed = 1 THEN [dfw EXCEPT !.rot = "gone", !.wg = 0]
              ELSE [dfw EXCEPT !.rot = "lock"]
    /\ UNCHANGED DfwFrame

\* autoRotate: w.mu.Lock(); _ = w.rotateInternal(); w.mu.Unlock()
RotLock ==
    /\ dfw.rot = "lock"
    /\ \E ok \in OpenOutcomes(dfw) :
         dfw' = [RotateInternal(dfw, ok).S EXCEPT !.rot = "select"]
    /\ UNCHANGED DfwFrame

\* midnight: time.Now().Format("2006-01-02") changes
NextDay ==
    /\ dfw.day < MaxDays
    /\ dfw' = [dfw EXCEPT !.day = @ + 1]
    /\ UNCHANGED DfwFrame

\* a minute has passed since w.lastRotate
MinutePasses ==
    /\ dfw.recent
    /\ dfw' = [dfw EXCEPT !.recent = FALSE]
    /\ UNCHANGED DfwFrame

DfwNext ==
    \/ \E p \in DfwCallers :
         \/ WriteLoad(p) \/ WriteRLock(p) \/ WriteRotate(p) \/ WriteFinal(p)
         \/ ForceRotate(p)
         \/ CloseSwap(p) \/ CloseCancel(p) \/ CloseWaited(p) \/ CloseFile(p)
    \/ RotSelect \/ RotCheck \/ RotLock
    \/ NextDay \/ MinutePasses

SpecDfw == DfwInit /\ [][DfwNext]_vars

\* the calls of kind that have returned
DfwReturned(kind) ==
    {p \in DfwCallers : /\ dfw.t[p].kind = kind /\ dfw.t[p].pc = "idle"
                        /\ dfw.t[p].ret # "none"}

\* no Write has reached a closed file, w.file is never a closed file, a
\* Write or ForceRotate that began after the closing Close returned has
\* returned an error and a Close that began then has returned nil
DfwCallsAfterClose ==
    /\ ~dfw.bad
    /\ dfw.file # 0 => dfw.file \in dfw.open
    /\ \A p \in DfwReturned("Write") \cup DfwReturned("ForceRotate") :
         dfw.t[p].late => dfw.t[p].ret # "nil"
    /\ \A p \in DfwReturned("Close") :
         dfw.t[p].late => dfw.t[p].ret = "nil"

\* C32 as stated: DailyFileWriter: after a Close call has returned no log
\* file is open, every Write and ForceRotate returns an error, no Write
\* reaches a closed file and further Close calls return nil
C32_NoFileAfterClose ==
    /\ dfw.anyClose => dfw.file = 0 /\ dfw.open = {}
    /\ DfwCallsAfterClose

\* C32 as amended: DailyFileWriter: after the Close call that set w.closed
\* has returned no log file is open, whatever Write, ForceRotate or hourly
\* tick overlapped it; every Write and ForceRotate that begins after that
\* returns an error, no Write reaches a closed file and further Close
\* calls return nil
C32_NoFileAfterClosingClose ==
    /\ dfw.closeDone => dfw.file = 0 /\ dfw.open = {}
    /\ DfwCallsAfterClose

\* the writer has rotated and is closed; a Write that overlapped the Close
\* found no file, a ForceRotate made afterwards found the writer closed
C32_Witness ==
    /\ dfw.closeDone /\ dfw.opens >= 2
    /\ \E p, q \in DfwCallers :
         /\ p \in DfwReturned("Write") /\ ~dfw.t[p].late
         /\ dfw.t[p].ret \in {"notopen", "rotfail"}
         /\ q \in DfwReturned("ForceRotate") /\ dfw.t[q].late
         /\ dfw.t[q].ret = "closed"
====
